---- MODULE Spec2Model ----
(***************************************************************************)
(* A model of the AllCryptoTokens offline-catalog builders:                *)
(*   src/build_prebuilt_db.py                    ("build_db")              *)
(*   src/token_db_builder/build_prebuilt_tokens.py ("build_tokens")        *)
(*   src/token_db_builder/safe_patch_prebuilt_db.py ("safe_patch")         *)
(*   src/scripts/patch_descriptions.py            ("patch_descriptions")   *)
(* The store is the sqlite table tokens(cgId PRIMARY KEY, symbol, name,    *)
(* description, imageUrl, updatedAt).  One script runs at a time.          *)
(***************************************************************************)
EXTENDS Integers, Sequences, FiniteSets, TLC

\* ------------------------------------------------------------------ bounds
\* The wall clock (whole seconds, int(time.time())) runs from 1 to MaxClock.
MaxClock == 2

\* ------------------------------------------------------------------ values
\* SQL NULL / Python None.  No real text of the model equals this marker.
NULL == "NULL"

\* The identifiers the upstream resolver can return.
IDS == {"bitcoin", "ethereum"}

\* (symbol, name) pairs the upstream coin list can give: bitcoin is listed under
\* either pair (the upstream renames it between runs), ethereum under the first.
Labels == {<<"s1", "n1">>, <<"s2", "n2">>}
UpstreamLabels(id) == IF id = "bitcoin" THEN Labels ELSE {<<"s1", "n1">>}

DescVals == {"d1", "d2"}
ImgVals  == {"i1", "i2"}

VARIABLES
    tokens,     \* the tokens table: a function cgId -> row, DOMAIN = the ids stored
    clock,      \* time.time(), whole seconds
    run,        \* the script run in progress and where it stands
    last,       \* the last store operation performed, the ids and the batch it was given
    result,     \* the counts the last patch run reported
    time,       \* time.time() as request_json sees it, in tenths of a second
    _last_call_ts,  \* the module global of _throttle, in tenths of a second
    req,        \* the request_json call in progress: its locals and what it did
    wire,       \* the requests on the network: how many in flight, when they started
    user_version,   \* PRAGMA user_version as the open connection of a patch script sees it
    disk,       \* what a patch script has committed: the rows and user_version a reopen finds
    job,        \* the main() of a patch script in progress: its options, items and counts
    conn,       \* the database as the connection of ensure_schema sees it: tables and layouts
    file,       \* the database ensure_schema has committed
    ens,        \* the ensure_schema call in progress: the statement it stands at
    pipe,       \* the main() of a build script in progress, one request or commit per step
    saved,      \* the database file of the build scripts: what is committed, what a reopen finds
    hist        \* what the run in progress has done so far: its requests, writes and commits

svars == <<tokens, clock, run, last, result>>
fvars == <<time, _last_call_ts, req, wire>>
mvars == <<user_version, disk, job>>
evars == <<conn, file, ens>>
pvars == <<pipe, saved, hist>>
vars == <<tokens, clock, run, last, result, time, _last_call_ts, req, wire,
          user_version, disk, job, conn, file, ens, pipe, saved, hist>>

\* A value is "empty" for the SQL tests (x IS NULL OR x = '') and for Python's
\* truthiness (None and '' are falsy).
IsEmpty(v) == v = NULL \/ v = ""

NoTokens == [id \in {} |-> NULL]

\* ------------------------------------------------------------------ queries

\* A variant of the query that tests IS NULL only and forgets the '' case.
list_ids_needing_enrich_db_null_only(db) ==
    {id \in DOMAIN db : db[id].description = NULL \/ db[id].imageUrl = NULL}

\* SELECT cgId FROM tokens WHERE description IS NULL OR description = ''
\*                            OR imageUrl IS NULL OR imageUrl = ''
list_ids_needing_enrich_db(db) ==
    {id \in DOMAIN db : IsEmpty(db[id].description) \/ IsEmpty(db[id].imageUrl)}

\* build_prebuilt_tokens.py: with skip_images only the description is tested.
list_ids_needing_enrich_tokens(db, skip_images) ==
    IF skip_images
    THEN {id \in DOMAIN db : IsEmpty(db[id].description)}
    ELSE {id \in DOMAIN db : IsEmpty(db[id].description) \/ IsEmpty(db[id].imageUrl)}

\* ------------------------------------------------------------------ seeding

\* A variant of the UPSERT written as INSERT OR REPLACE: an existing row is
\* replaced by a fresh one.
upsert_seed_replace(db, cgId, sym, name) ==
    [id \in DOMAIN db \cup {cgId} |->
        IF id = cgId
        THEN [symbol |-> sym, name |-> name, description |-> NULL,
              imageUrl |-> NULL, updatedAt |-> 0]
        ELSE db[id]]

\* One execution of the UPSERT statement of seed_rows_from_crypto_com:
\* a new cgId gets NULL details and updatedAt 0, an existing one keeps them
\* (COALESCE((SELECT ... WHERE t.cgId = ?), ...)) and takes the new symbol/name.
upsert_seed(db, cgId, sym, name) ==
    IF cgId \in DOMAIN db
    THEN [db EXCEPT ![cgId].symbol = sym, ![cgId].name = name]
    ELSE [id \in DOMAIN db \cup {cgId} |->
            IF id = cgId
            THEN [symbol |-> sym, name |-> name, description |-> NULL,
                  imageUrl |-> NULL, updatedAt |-> 0]
            ELSE db[id]]

\* executemany(UPSERT, buf) over the mapped rows; rows is a function
\* cgId -> <<symbol, name>> (the resolver maps each symbol to one coin).
RECURSIVE seed_rows(_, _, _)
seed_rows(db, rows, left) ==
    IF left = {} THEN db
    ELSE LET cgId == CHOOSE x \in left : TRUE
         IN  seed_rows(upsert_seed(db, cgId, rows[cgId][1], rows[cgId][2]),
                       rows, left \ {cgId})

\* What map_symbols_to_cg_ids can return: any subset of the ids, each with a label.
SeedInputs ==
    UNION {{rows \in [S -> Labels] : \A id \in S : rows[id] \in UpstreamLabels(id)}
           : S \in SUBSET IDS}

\* ------------------------------------------------------------------ sanitising

\* Raw description texts the detail endpoint can carry.
RawDescs == {NULL, "", "<p></p>", "d1", "<b>d2</b>"}

\* re.sub(r"<[^>]*>", "", s) then html.unescape(s).strip(), on the raw texts above.
strip_html(s) ==
    IF IsEmpty(s) THEN s
    ELSE CASE s = "<p></p>"    -> ""
           [] s = "<b>d2</b>"  -> "d2"
           [] OTHER            -> s

\* desc_raw = ((data.get("description") or {}).get("en")) or None
\* desc = strip_html(desc_raw) if desc_raw else None
detail_desc(raw) ==
    LET desc_raw == IF IsEmpty(raw) THEN NULL ELSE raw
    IN  IF desc_raw # NULL THEN strip_html(desc_raw) ELSE NULL

\* Image objects of a detail response: large / small / thumb, each possibly absent.
ImgObjs == { [large |-> NULL, small |-> NULL, thumb |-> NULL],
             [large |-> "",   small |-> "",   thumb |-> ""],
             [large |-> NULL, small |-> "i1", thumb |-> "i2"] }

\* img_obj.get("large") or img_obj.get("small") or img_obj.get("thumb")
_pick_image(img_obj) ==
    IF ~IsEmpty(img_obj.large) THEN img_obj.large
    ELSE IF ~IsEmpty(img_obj.small) THEN img_obj.small
    ELSE img_obj.thumb

\* ------------------------------------------------------------------ enrich writes

\* UPDATE tokens SET imageUrl=?, updatedAt=? WHERE cgId=?
update_image(db, cid, img, now) ==
    IF cid \in DOMAIN db
    THEN [db EXCEPT ![cid].imageUrl = img, ![cid].updatedAt = now]
    ELSE db

\* The body of "with db: for it in arr: ..." of enrich_images_via_markets.
\* arr is a function id -> image of the items of the response.
RECURSIVE markets_apply(_, _, _, _)
markets_apply(db, arr, left, now) ==
    IF left = {} THEN db
    ELSE LET cid == CHOOSE x \in left : TRUE
             img == arr[cid]
             nxt == IF cid # "" /\ ~IsEmpty(img) THEN update_image(db, cid, img, now) ELSE db
         IN  markets_apply(nxt, arr, left \ {cid}, now)

\* build_prebuilt_db.py: UPDATE tokens SET description=?, updatedAt=? WHERE cgId=?
update_description(db, cid, desc, now) ==
    IF cid \in DOMAIN db
    THEN [db EXCEPT ![cid].description = desc, ![cid].updatedAt = now]
    ELSE db

\* build_prebuilt_tokens.py:
\* UPDATE tokens SET description=?, imageUrl=?, updatedAt=? WHERE cgId=?
update_details(db, cid, desc, img, now) ==
    IF cid \in DOMAIN db
    THEN [db EXCEPT ![cid].description = desc, ![cid].imageUrl = img,
                    ![cid].updatedAt = now]
    ELSE db

\* The write of one iteration of enrich_details, per script.
detail_write(script, skip_images, db, cid, data, now) ==
    LET desc == detail_desc(data.description)
    IN  IF script = "build_db"
        THEN update_description(db, cid, desc, now)
        ELSE LET img == IF skip_images THEN NULL ELSE _pick_image(data.image)
             IN  update_details(db, cid, desc, img, now)

\* Bodies of the detail endpoint.
DetailData == [description : RawDescs, image : ImgObjs]

\* Responses of the markets endpoint: items for some ids (requested or not), each
\* with an image field that may be missing.
MarketsData == UNION {[S -> {NULL, "i1"}] : S \in SUBSET IDS}

\* ------------------------------------------------------------------ build runs

BuildScripts == {"build_db", "build_tokens"}

NoResult == [updated |-> 0, missing |-> 0, skipped |-> 0, matched |-> 0]

\* No request_json call has been made.
NoCall == [script |-> "none", pc |-> "idle", attempt |-> 0, sent |-> 0, calls |-> 0,
           failures |-> 0, wait |-> 0, kind |-> "none",
           status |-> "none", retry_after |-> [form |-> "absent", delay |-> 0],
           error |-> "none"]

NoWire == [inflight |-> 0, start |-> -1, prev_start |-> -1]

\* No patch script has been started.
NoJob == [script |-> "none", phase |-> "idle", shape |-> "none",
          items |-> <<>>, all |-> <<>>,
          dry_run |-> FALSE, overwrite |-> FALSE, uv |-> "none", before_uv |-> 0,
          updated |-> 0, missing |-> 0, skipped |-> 0, matched |-> 0,
          error |-> "none"]

NoMain ==
    /\ user_version = 0
    /\ disk = [tokens |-> NoTokens, user_version |-> 0]
    /\ job = NoJob

\* No database has been handed to ensure_schema.
\* No table of that name: a table has at least one column.
NoTable == [cols |-> {}, notnull |-> {}, pk |-> NULL, rows |-> <<>>]

NoDb == [tokens |-> NoTable, tokens_new |-> NoTable, indexes |-> {}]

NoEnsure ==
    /\ conn = NoDb
    /\ file = NoDb
    /\ ens = [phase |-> "idle", path |-> "none", todo |-> <<>>, in_tx |-> FALSE,
              old |-> NoDb, error |-> "none"]

\* No build script has been started with commits and exits followed.
NoRun == [script |-> "none", resume |-> FALSE, skip_images |-> FALSE, phase |-> "idle",
          ids |-> {}, todo |-> {}, now |-> 0, processed |-> 0]

NoHist == [requests |-> {}, enriched |-> FALSE, failed |-> {}, last_commit |-> NoTokens]

NoPipe ==
    /\ pipe = NoRun
    /\ saved = [exists |-> FALSE, tokens |-> NoTokens]
    /\ hist = NoHist

NoFetch ==
    /\ time = 1000
    /\ _last_call_ts = 0
    /\ req = NoCall
    /\ wire = NoWire

Idle == [script |-> "none", phase |-> "idle", skip_images |-> FALSE,
         ids |-> {}, todo |-> {}, now |-> 0]

\* open_db: a forced fresh open removes the file; CREATE TABLE IF NOT EXISTS
\* keeps an existing table.
open_db(db, resume, force) ==
    IF ~resume /\ force THEN NoTokens ELSE db

list_ids_needing_enrich(script, db, skip_images) ==
    IF script = "build_db"
    THEN list_ids_needing_enrich_db(db)
    ELSE list_ids_needing_enrich_tokens(db, skip_images)

\* enrich_details of build_prebuilt_db.py after the markets phase: the rows of
\* ids that still need a description, then the per-id loop (or the final commit).
begin_detail(script, skip_images, db, ids, now) ==
    LET need == IF script = "build_db"
                THEN {id \in ids \cap DOMAIN db : IsEmpty(db[id].description)}
                ELSE ids
    IN  IF need = {} THEN Idle
        ELSE [script |-> script, phase |-> "detail", skip_images |-> skip_images,
              ids |-> ids, todo |-> need, now |-> now]

\* main() from list_ids_needing_enrich up to the first request of enrich_details.
begin_enrich(script, skip_images, db, now) ==
    LET ids     == list_ids_needing_enrich(script, db, skip_images)
        to_fill == {id \in ids : IsEmpty(db[id].imageUrl)}
    IN  IF script = "build_db" /\ ~skip_images /\ ids # {} /\ to_fill # {}
        THEN [script |-> script, phase |-> "markets", skip_images |-> skip_images,
              ids |-> ids, todo |-> to_fill, now |-> now]
        ELSE begin_detail(script, skip_images, db, ids, now)

\* chunked(to_fill, 200)
MARKETS_CHUNK == 200

Min(a, b) == IF a < b THEN a ELSE b

\* main() with --resume: open, list what is missing, start enriching.
StartResume(script, skip_images) ==
    /\ run.script = "none"
    /\ tokens' = open_db(tokens, TRUE, FALSE)
    /\ run' = begin_enrich(script, skip_images, tokens', clock)
    /\ last' = [op |-> "resume", ids |-> {}, items |-> <<>>]
    /\ UNCHANGED <<clock, result>>
    /\ UNCHANGED fvars
    /\ UNCHANGED <<mvars, evars, pvars>>

\* main() without --resume: open (removing the file under --force), then seed.
StartFresh(script, force, skip_images) ==
    /\ run.script = "none"
    /\ tokens' = open_db(tokens, FALSE, force)
    /\ run' = [Idle EXCEPT !.script = script, !.phase = "seed",
                           !.skip_images = skip_images]
    /\ last' = [op |-> "open", ids |-> {}, items |-> <<>>]
    /\ UNCHANGED <<clock, result>>
    /\ UNCHANGED fvars
    /\ UNCHANGED <<mvars, evars, pvars>>

\* seed_rows_from_crypto_com with both list requests answered, then the start of
\* enrich_details.
Seed(rows) ==
    /\ run.phase = "seed"
    /\ tokens' = seed_rows(tokens, rows, DOMAIN rows)
    /\ run' = begin_enrich(run.script, run.skip_images, tokens', clock)
    /\ last' = [op |-> "seed", ids |-> DOMAIN rows, items |-> <<>>]
    /\ UNCHANGED <<clock, result>>
    /\ UNCHANGED fvars
    /\ UNCHANGED <<mvars, evars, pvars>>

\* A list request of the seed phase raises: main() ends with the exception.
SeedFails ==
    /\ run.phase = "seed"
    /\ run' = Idle
    /\ last' = [op |-> "seed_failed", ids |-> {}, items |-> <<>>]
    /\ UNCHANGED <<tokens, clock, result>>
    /\ UNCHANGED fvars
    /\ UNCHANGED <<mvars, evars, pvars>>

\* One batch of enrich_images_via_markets answered with arr.
MarketsBatch(batch, arr) ==
    /\ run.phase = "markets"
    /\ batch \subseteq run.todo
    /\ Cardinality(batch) = Min(MARKETS_CHUNK, Cardinality(run.todo))
    /\ tokens' = markets_apply(tokens, arr, DOMAIN arr, run.now)
    /\ run' = IF run.todo \ batch = {}
              THEN begin_detail(run.script, run.skip_images, tokens', run.ids, clock)
              ELSE [run EXCEPT !.todo = run.todo \ batch]
    /\ last' = [op |-> "markets", ids |-> batch, items |-> <<>>]
    /\ UNCHANGED <<clock, result>>
    /\ UNCHANGED fvars
    /\ UNCHANGED <<mvars, evars, pvars>>

\* One batch whose request raises: logged, the loop goes on.
MarketsBatchFails(batch) ==
    /\ run.phase = "markets"
    /\ batch \subseteq run.todo
    /\ Cardinality(batch) = Min(MARKETS_CHUNK, Cardinality(run.todo))
    /\ run' = IF run.todo \ batch = {}
              THEN begin_detail(run.script, run.skip_images, tokens, run.ids, clock)
              ELSE [run EXCEPT !.todo = run.todo \ batch]
    /\ last' = [op |-> "markets_failed", ids |-> batch, items |-> <<>>]
    /\ UNCHANGED <<tokens, clock, result>>
    /\ UNCHANGED fvars
    /\ UNCHANGED <<mvars, evars, pvars>>

\* One iteration of the per-id loop of enrich_details answered with data.
Detail(cid, data) ==
    /\ run.phase = "detail"
    /\ cid \in run.todo
    /\ tokens' = detail_write(run.script, run.skip_images, tokens, cid, data, run.now)
    /\ run' = IF run.todo = {cid} THEN Idle ELSE [run EXCEPT !.todo = run.todo \ {cid}]
    /\ last' = [op |-> "detail", ids |-> {cid}, items |-> <<>>]
    /\ UNCHANGED <<clock, result>>
    /\ UNCHANGED fvars
    /\ UNCHANGED <<mvars, evars, pvars>>

\* One iteration whose request raises: logged, the row is not written.
DetailFails(cid) ==
    /\ run.phase = "detail"
    /\ cid \in run.todo
    /\ run' = IF run.todo = {cid} THEN Idle ELSE [run EXCEPT !.todo = run.todo \ {cid}]
    /\ last' = [op |-> "detail_failed", ids |-> {cid}, items |-> <<>>]
    /\ UNCHANGED <<tokens, clock, result>>
    /\ UNCHANGED fvars
    /\ UNCHANGED <<mvars, evars, pvars>>

\* A second of wall-clock time passes.
Tick ==
    /\ clock < MaxClock
    /\ clock' = clock + 1
    /\ UNCHANGED <<tokens, run, last, result>>
    /\ UNCHANGED fvars
    /\ UNCHANGED <<mvars, evars, pvars>>

Init ==
    /\ tokens = NoTokens
    /\ clock = 1
    /\ run = Idle
    /\ last = [op |-> "none", ids |-> {}, items |-> <<>>]
    /\ result = NoResult
    /\ NoPipe
    /\ NoFetch
    /\ NoMain
    /\ NoEnsure

Next ==
    \/ \E script \in BuildScripts, skip_images \in BOOLEAN : StartResume(script, skip_images)
    \/ \E script \in BuildScripts, force \in BOOLEAN, skip_images \in BOOLEAN :
          StartFresh(script, force, skip_images)
    \/ \E rows \in SeedInputs : Seed(rows)
    \/ SeedFails
    \/ \E batch \in SUBSET IDS, arr \in MarketsData : MarketsBatch(batch, arr)
    \/ \E batch \in SUBSET IDS : MarketsBatchFails(batch)
    \/ \E cid \in IDS, data \in DetailData : Detail(cid, data)
    \/ \E cid \in IDS : DetailFails(cid)
    \/ Tick

Spec == Init /\ [][Next]_vars

\* ------------------------------------------------------------------ patch runs

\* str.strip() on the identifiers a patch file can carry.
strip(s) == IF s = " bitcoin " THEN "bitcoin" ELSE s

\* cgId = (it.get("cgId") or it.get("id") or "").strip()
entry_id(it) ==
    strip(IF ~IsEmpty(it.cgId) THEN it.cgId
          ELSE IF ~IsEmpty(it.id) THEN it.id
          ELSE "")

\* A variant of the UPDATE of apply_patches that binds the patch values directly
\* (SET description = ?, imageUrl = ?) instead of through COALESCE.
patch_update_direct(db, cgId, desc, img, ts) ==
    [db EXCEPT ![cgId].description = desc, ![cgId].imageUrl = img,
               ![cgId].updatedAt = ts]

\* UPDATE tokens SET description = COALESCE(?, description),
\*                   imageUrl = COALESCE(?, imageUrl), updatedAt = ?
\*  WHERE cgId = ?   with (desc if desc else None, img if img else None, ts, cgId)
patch_update(db, cgId, desc, img, ts) ==
    LET d == IF ~IsEmpty(desc) THEN desc ELSE NULL
        i == IF ~IsEmpty(img) THEN img ELSE NULL
    IN  [db EXCEPT ![cgId].description = IF d # NULL THEN d ELSE @,
                   ![cgId].imageUrl    = IF i # NULL THEN i ELSE @,
                   ![cgId].updatedAt   = ts]

\* A variant of the loop body of apply_patches that inserts a row for an id the
\* store does not hold (an upsert) instead of counting it as missing.
patch_item_upsert(acc, it, dry_run, ts) ==
    LET cgId == entry_id(it)
        row  == [symbol |-> "", name |-> "", description |-> it.description,
                 imageUrl |-> it.imageUrl, updatedAt |-> ts]
    IN  IF cgId = "" THEN [acc EXCEPT !.skipped = @ + 1]
        ELSE IF cgId \notin DOMAIN acc.db
        THEN [acc EXCEPT !.db = [id \in DOMAIN acc.db \cup {cgId} |->
                                    IF id = cgId THEN row ELSE acc.db[id]],
                         !.updated = @ + 1]
        ELSE IF IsEmpty(it.description) /\ IsEmpty(it.imageUrl)
        THEN [acc EXCEPT !.skipped = @ + 1]
        ELSE IF dry_run THEN [acc EXCEPT !.updated = @ + 1]
        ELSE [acc EXCEPT !.db = patch_update(acc.db, cgId, it.description, it.imageUrl, ts),
                         !.updated = @ + 1]

\* A variant of the loop body of apply_patches that tests the fields before the
\* store, so that an entry with both fields empty is skipped whatever its id.
patch_item_fields_first(acc, it, dry_run, ts) ==
    LET cgId == entry_id(it)
    IN  IF cgId = "" THEN [acc EXCEPT !.skipped = @ + 1]
        ELSE IF IsEmpty(it.description) /\ IsEmpty(it.imageUrl)
        THEN [acc EXCEPT !.skipped = @ + 1]
        ELSE IF cgId \notin DOMAIN acc.db THEN [acc EXCEPT !.missing = @ + 1]
        ELSE IF dry_run THEN [acc EXCEPT !.updated = @ + 1]
        ELSE [acc EXCEPT !.db = patch_update(acc.db, cgId, it.description, it.imageUrl, ts),
                         !.updated = @ + 1]

\* One iteration of "for it in items" of apply_patches.
patch_item(acc, it, dry_run, ts) ==
    LET cgId == entry_id(it)
    IN  IF cgId = "" THEN [acc EXCEPT !.skipped = @ + 1]
        ELSE IF cgId \notin DOMAIN acc.db THEN [acc EXCEPT !.missing = @ + 1]
        ELSE IF IsEmpty(it.description) /\ IsEmpty(it.imageUrl)
        THEN [acc EXCEPT !.skipped = @ + 1]
        ELSE IF dry_run THEN [acc EXCEPT !.updated = @ + 1]
        ELSE [acc EXCEPT !.db = patch_update(acc.db, cgId, it.description, it.imageUrl, ts),
                         !.updated = @ + 1]

\* apply_patches(conn, items, dry_run): the loop over the normalised items.
RECURSIVE patch_loop(_, _, _, _)
patch_loop(acc, items, dry_run, ts) ==
    IF items = <<>> THEN acc
    ELSE patch_loop(patch_item(acc, Head(items), dry_run, ts), Tail(items), dry_run, ts)

apply_patches(db, items, dry_run, ts) ==
    patch_loop([db |-> db, updated |-> 0, missing |-> 0, skipped |-> 0],
               items, dry_run, ts)

\* The entries a patch file can hold (a missing key reads as NULL).
PatchEntries ==
    { [cgId |-> "bitcoin",   id |-> NULL,       description |-> "d2", imageUrl |-> NULL],
      [cgId |-> NULL,        id |-> "ethereum", description |-> "",   imageUrl |-> "i2"],
      [cgId |-> "ghost",     id |-> NULL,       description |-> "d2", imageUrl |-> "i2"],
      [cgId |-> " bitcoin ", id |-> NULL,       description |-> NULL, imageUrl |-> ""],
      [cgId |-> "",          id |-> NULL,       description |-> "d2", imageUrl |-> "i2"],
      [cgId |-> "ghost",     id |-> NULL,       description |-> NULL, imageUrl |-> NULL] }

\* The longest patch batch.
MaxPatchLen == 3

Batches == UNION {[1..n -> PatchEntries] : n \in 0..MaxPatchLen}

\* The ids a batch names.
batch_ids(items) == {entry_id(items[k]) : k \in DOMAIN items}

\* --- scripts/patch_descriptions.py

\* Raw {cgId: description} files: a value is null, blank or a text.
DescKeys == IDS \cup {"ghost"}
DescFiles == UNION {[K -> {NULL, " ", "d2"}] : K \in SUBSET DescKeys}

\* load_json: null values are dropped, the others become str(v).strip().
load_json(data) ==
    [k \in {x \in DOMAIN data : data[x] # NULL} |->
        IF data[k] = " " THEN "" ELSE data[k]]

\* One iteration of "for cg_id, desc in updates.items()" of main.
desc_item(acc, cg_id, desc, overwrite) ==
    IF IsEmpty(cg_id) \/ IsEmpty(desc) THEN acc
    ELSE IF cg_id \notin DOMAIN acc.db THEN acc
    ELSE IF ~overwrite /\ ~IsEmpty(acc.db[cg_id].description)
    THEN [acc EXCEPT !.matched = @ + 1, !.skipped = @ + 1]
    ELSE IF overwrite \/ IsEmpty(acc.db[cg_id].description)
    THEN [acc EXCEPT !.db = [acc.db EXCEPT ![cg_id].description = desc],
                     !.matched = @ + 1, !.updated = @ + 1]
    ELSE [acc EXCEPT !.matched = @ + 1]

RECURSIVE desc_loop(_, _, _, _)
desc_loop(acc, updates, left, overwrite) ==
    IF left = {} THEN acc
    ELSE LET cg_id == CHOOSE x \in left : TRUE
         IN  desc_loop(desc_item(acc, cg_id, updates[cg_id], overwrite),
                       updates, left \ {cg_id}, overwrite)

\* main of patch_descriptions.py from load_json to COMMIT.
patch_descriptions(db, data, overwrite) ==
    LET updates == load_json(data)
    IN  desc_loop([db |-> db, updated |-> 0, skipped |-> 0, matched |-> 0],
                  updates, DOMAIN updates, overwrite)

\* safe_patch_prebuilt_db.py: one patch file applied (or counted, under --dry-run).
\* A behaviour of SpecPatch holds one patch run, on the store the run is given.
ApplyPatches(items, dry_run) ==
    /\ run.script = "none"
    /\ last.op = "none"
    /\ LET r == apply_patches(tokens, items, dry_run, clock)
       IN  /\ tokens' = r.db
           /\ result' = [updated |-> r.updated, missing |-> r.missing,
                         skipped |-> r.skipped, matched |-> 0]
    /\ last' = [op |-> IF dry_run THEN "apply_patches_dry_run" ELSE "apply_patches",
                ids |-> batch_ids(items), items |-> items]
    /\ UNCHANGED <<clock, run>>
    /\ UNCHANGED fvars
    /\ UNCHANGED <<mvars, evars, pvars>>

\* patch_descriptions.py: one run, fill-only or with --overwrite.
PatchDescriptions(data, overwrite) ==
    /\ run.script = "none"
    /\ last.op = "none"
    /\ LET r == patch_descriptions(tokens, data, overwrite)
       IN  /\ tokens' = r.db
           /\ result' = [updated |-> r.updated, missing |-> 0,
                         skipped |-> r.skipped, matched |-> r.matched]
    /\ last' = [op |-> IF overwrite THEN "patch_descriptions_overwrite"
                       ELSE "patch_descriptions",
                ids |-> DOMAIN data, items |-> <<>>]
    /\ UNCHANGED <<clock, run>>
    /\ UNCHANGED fvars
    /\ UNCHANGED <<mvars, evars, pvars>>

\* The stores a patch run is given: each id absent, only seeded, or enriched by an
\* earlier build run.
PatchRows ==
    { [symbol |-> "s1", name |-> "n1", description |-> NULL, imageUrl |-> NULL, updatedAt |-> 0],
      [symbol |-> "s1", name |-> "n1", description |-> "d1", imageUrl |-> "i1", updatedAt |-> 1],
      [symbol |-> "s1", name |-> "n1", description |-> "d1", imageUrl |-> NULL, updatedAt |-> 1],
      [symbol |-> "s1", name |-> "n1", description |-> "",   imageUrl |-> "i1", updatedAt |-> 1],
      [symbol |-> "s1", name |-> "n1", description |-> "d1", imageUrl |-> "",   updatedAt |-> 1] }

PatchStores == UNION {[S -> PatchRows] : S \in SUBSET IDS}

InitPatch ==
    /\ tokens \in PatchStores
    /\ clock = 1
    /\ run = Idle
    /\ last = [op |-> "none", ids |-> {}, items |-> <<>>]
    /\ result = NoResult
    /\ NoPipe
    /\ NoFetch
    /\ NoMain
    /\ NoEnsure

NextPatch ==
    \/ /\ last.op = "none"
       /\ \E items \in Batches, dry_run \in BOOLEAN : ApplyPatches(items, dry_run)
    \/ /\ last.op = "none"
       /\ \E data \in DescFiles, overwrite \in BOOLEAN : PatchDescriptions(data, overwrite)
    \/ Tick

SpecPatch == InitPatch /\ [][NextPatch]_vars

\* ------------------------------------------------------------------ request engine
\* request_json and _throttle of the two build scripts.  Times are in tenths
\* of a second, so that the jitter random.random() * 0.4 is one of 0..3.

MaxCalls == 2
MaxFailures == 7

MAX_RETRIES == 6
BASE_BACKOFF_SEC == 20

SPACING_SEC(script) == IF script = "build_db" THEN 150 ELSE 120

MAX_BACKOFF_SEC(script) == IF script = "build_db" THEN 900 ELSE 600

\* random.random() * 0.4 lies in [0, 0.4): its two extremes in tenths.
Jitters == {0, 3}

\* How long SESSION.get takes to come back.
Durations == {1}

\* What the caller does between two request_json calls takes this long.
CallerGaps == {0, 300}

\* The Retry-After header of a response: absent, empty, a number of seconds,
\* or an HTTP-date that lies `delay` ahead of the response.
RetryAfters ==
    { [form |-> "absent",  delay |-> 0],
      [form |-> "empty",   delay |-> 0],
      [form |-> "seconds", delay |-> 10],
      [form |-> "seconds", delay |-> 2000],
      [form |-> "date",    delay |-> 300] }

NoRetryAfter == [form |-> "absent", delay |-> 0]

\* `if retry_after:` -- None and "" are falsy.
Truthy(h) == h.form \notin {"absent", "empty"}

\* float(retry_after): a number of seconds parses, an HTTP-date raises ValueError.
float(h) ==
    IF h.form = "seconds" THEN [ok |-> TRUE, value |-> h.delay]
    ELSE [ok |-> FALSE, value |-> 0]

RECURSIVE Pow2(_)
Pow2(n) == IF n <= 0 THEN 1 ELSE 2 * Pow2(n - 1)

\* The backoff without its min(): what the cap is there to prevent.
backoff_uncapped(script, attempt) == BASE_BACKOFF_SEC * Pow2(attempt - 1)

\* min(MAX_BACKOFF_SEC, BASE_BACKOFF_SEC * (2 ** (attempt - 1)))
backoff(script, attempt) ==
    Min(MAX_BACKOFF_SEC(script), BASE_BACKOFF_SEC * Pow2(attempt - 1))

\* A gate that stamps `now`, the time read before the sleep, instead of
\* reading the time again after it.
_throttle_stale_stamp(now, last_ts, spacing) ==
    LET delta == now - last_ts
        woke == IF delta < spacing THEN now + (spacing - delta) ELSE now
    IN  [time |-> woke, _last_call_ts |-> now]

\* _throttle(): sleep up to the spacing, then stamp the time after the sleep.
_throttle(now, last_ts, spacing) ==
    LET delta == now - last_ts
        woke == IF delta < spacing THEN now + (spacing - delta) ELSE now
    IN  [time |-> woke, _last_call_ts |-> woke]

\* The wait request_json computes for a 429/5xx response, or the ValueError
\* that float() raises in build_prebuilt_db.py, which has no try around it.
status_wait(script, h, attempt, jitter) ==
    IF Truthy(h)
    THEN IF float(h).ok
         THEN [raised |-> FALSE, wait |-> float(h).value, kind |-> "retry_after"]
         ELSE IF script = "build_db"
              THEN [raised |-> TRUE, wait |-> 0, kind |-> "none"]
              ELSE [raised |-> FALSE, wait |-> 100, kind |-> "fallback"]
    ELSE [raised |-> FALSE, wait |-> backoff(script, attempt) + jitter,
          kind |-> "backoff"]

\* A caller (fetch_crypto_com_symbols, map_symbols_to_cg_ids, the enrich
\* steps) calls request_json.
Call(gap) ==
    /\ req.pc \in {"idle", "returned", "raised"}
    /\ req.calls < MaxCalls
    /\ time' = time + gap
    /\ req' = [NoCall EXCEPT !.script = req.script, !.pc = "loop",
                             !.calls = req.calls + 1,
                             !.failures = req.failures]
    /\ UNCHANGED <<_last_call_ts, wire>>
    /\ UNCHANGED svars
    /\ UNCHANGED <<mvars, evars, pvars>>

\* The top of the loop: attempt += 1; _throttle(); SESSION.get goes out.
Send ==
    /\ req.pc = "loop"
    /\ LET t == _throttle(time, _last_call_ts, SPACING_SEC(req.script))
       IN  /\ time' = t.time
           /\ _last_call_ts' = t._last_call_ts
           /\ wire' = [inflight |-> wire.inflight + 1, start |-> t.time,
                       prev_start |-> wire.start]
    /\ req' = [req EXCEPT !.pc = "inflight", !.attempt = @ + 1, !.sent = @ + 1,
                          !.status = "none", !.retry_after = NoRetryAfter]
    /\ UNCHANGED svars
    /\ UNCHANGED <<mvars, evars, pvars>>

Landed(dur) ==
    /\ req.pc = "inflight"
    /\ wire' = [wire EXCEPT !.inflight = @ - 1]
    /\ UNCHANGED _last_call_ts
    /\ UNCHANGED svars
    /\ UNCHANGED <<mvars, evars, pvars>>

\* 200: raise_for_status passes, resp.json() is returned.
RespondOk(dur) ==
    /\ Landed(dur)
    /\ time' = time + dur
    /\ req' = [req EXCEPT !.pc = "returned", !.status = "200"]

\* A request_json that handles every error status the way it handles 429:
\* it sleeps the backoff and goes round the loop again.
RespondClientErrorRetried(dur) ==
    /\ Landed(dur)
    /\ LET wait == backoff(req.script, req.attempt)
       IN  /\ time' = time + dur + wait
           /\ req' = [req EXCEPT !.pc = "loop", !.status = "404",
                                 !.wait = wait, !.kind = "backoff"]

\* 4xx other than 429: raise_for_status raises, nothing catches it.
RespondClientError(dur) ==
    /\ Landed(dur)
    /\ time' = time + dur
    /\ req' = [req EXCEPT !.pc = "raised", !.status = "404", !.error = "HTTPError"]

\* 429 or 5xx.
RespondRetryable(status, h, jitter, dur) ==
    /\ Landed(dur)
    /\ req.failures < MaxFailures
    /\ LET w == status_wait(req.script, h, req.attempt, jitter)
       IN  IF w.raised
           THEN /\ time' = time + dur
                /\ req' = [req EXCEPT !.pc = "raised", !.status = status,
                                      !.failures = @ + 1,
                                      !.retry_after = h, !.error = "ValueError"]
           ELSE IF req.attempt <= MAX_RETRIES
           THEN /\ time' = time + dur + w.wait
                /\ req' = [req EXCEPT !.pc = "loop", !.status = status,
                                      !.retry_after = h,
                                      !.failures = @ + 1,
                                      !.wait = w.wait, !.kind = w.kind]
           ELSE /\ time' = time + dur
                /\ req' = [req EXCEPT !.pc = "raised", !.status = status,
                                      !.failures = @ + 1,
                                      !.retry_after = h, !.error = "HTTPError"]

\* requests.Timeout or requests.ConnectionError out of SESSION.get.
RespondNetworkError(exc, jitter, dur) ==
    /\ Landed(dur)
    /\ req.failures < MaxFailures
    /\ IF req.attempt <= MAX_RETRIES
       THEN LET wait == backoff(req.script, req.attempt) + jitter
            IN  /\ time' = time + dur + wait
                /\ req' = [req EXCEPT !.pc = "loop", !.status = exc,
                                      !.failures = @ + 1,
                                      !.wait = wait, !.kind = "backoff"]
       ELSE /\ time' = time + dur
            /\ req' = [req EXCEPT !.pc = "raised", !.status = exc,
                                  !.failures = @ + 1, !.error = exc]

InitFetch ==
    /\ tokens = NoTokens
    /\ clock = 1
    /\ run = Idle
    /\ last = [op |-> "none", ids |-> {}, items |-> <<>>]
    /\ result = NoResult
    /\ NoPipe
    /\ time = 1000
    /\ _last_call_ts = 0
    /\ \E s \in BuildScripts : req = [NoCall EXCEPT !.script = s]
    /\ wire = NoWire
    /\ NoMain
    /\ NoEnsure

NextFetch ==
    \/ \E gap \in CallerGaps : Call(gap)
    \/ Send
    \/ \E dur \in Durations : RespondOk(dur)
    \/ \E dur \in Durations : RespondClientError(dur)
    \/ \E status \in {"429", "503"}, h \in RetryAfters, jitter \in Jitters,
          dur \in Durations : RespondRetryable(status, h, jitter, dur)
    \/ \E exc \in {"Timeout", "ConnectionError"}, jitter \in Jitters,
          dur \in Durations : RespondNetworkError(exc, jitter, dur)

SpecFetch == InitFetch /\ [][NextFetch]_vars

\* ------------------------------------------------------------------ patch scripts: main()
\* safe_patch_prebuilt_db.py, scripts/patch_descriptions.py and
\* scripts/clean_garbage_descriptions.py as whole runs over a database file:
\* `tokens` and `user_version` are what the open connection sees, `disk` is
\* what has been committed.  A behaviour of SpecMain holds one run.

\* The longest patch document.
MaxDocLen == 2

\* A JSON number where a string is expected.
NUM == "#5"

\* A description that is_garbage() rejects: it holds the substring "airdrop".
GARBAGE == "airdrop"

\* The entries of a patch document (a missing key reads as NULL).
Obj(cgId, id, description, imageUrl) ==
    [kind |-> "object", cgId |-> cgId, id |-> id,
     description |-> description, imageUrl |-> imageUrl]

NotObj == [kind |-> "string", cgId |-> NULL, id |-> NULL,
           description |-> NULL, imageUrl |-> NULL]

RawEntries ==
    { Obj("bitcoin", NULL, "d2", NULL),
      Obj(NULL, "ethereum", NULL, "i2"),
      Obj("ghost", NULL, "d2", NULL),
      Obj(NULL, NULL, "d2", NULL),
      Obj(NUM, NULL, "d2", NULL),
      NotObj }

\* The keys and values of a patch document in map form: fields only, fields
\* that carry a cgId of their own, a value that is not an object.
MapKeys == {"bitcoin", "ethereum", "ghost"}

MapValues ==
    { Obj(NULL, NULL, "d2", NULL),
      Obj(NULL, NULL, NULL, "i2"),
      Obj("ethereum", NULL, "d2", NULL),
      NotObj }

Lists == UNION {[1..n -> RawEntries] : n \in 0..MaxDocLen}

Maps ==
    {m \in UNION {[1..n -> [key : MapKeys, value : MapValues]] : n \in 0..MaxDocLen} :
        \A i, j \in DOMAIN m : i # j => m[i].key # m[j].key}

\* The documents json.load can return: a list, {"items": [...]}, a map
\* cgId -> fields, or something else (a string, a number).
PatchDocs ==
    {[shape |-> "list", body |-> l] : l \in Lists}
      \cup {[shape |-> "items", body |-> l] : l \in Lists}
      \cup {[shape |-> "map", body |-> m] : m \in Maps}
      \cup {[shape |-> "other", body |-> <<>>]}

\* The fields alone, without the key of the map.
map_entry_fields_only(k, v) == v

\* {"cgId": k, **v}: a cgId among the fields v replaces k.
map_entry(k, v) ==
    [v EXCEPT !.cgId = IF v.cgId # NULL THEN v.cgId ELSE k]

\* tmp of apply_patches: the values that are objects, in the order of the file.
RECURSIVE map_items(_)
map_items(m) ==
    IF m = <<>> THEN <<>>
    ELSE IF Head(m).value.kind = "object"
         THEN <<map_entry(Head(m).key, Head(m).value)>> \o map_items(Tail(m))
         ELSE map_items(Tail(m))

\* The head of apply_patches: the items of a document, or ValueError.
patch_items(patch) ==
    IF patch.shape \in {"items", "list"} THEN [ok |-> TRUE, items |-> patch.body]
    ELSE IF patch.shape = "map" THEN [ok |-> TRUE, items |-> map_items(patch.body)]
    ELSE [ok |-> FALSE, items |-> <<>>]

\* it.get(...) on a value that is not an object, or .strip() on an id that is
\* not a string: AttributeError.
entry_raises(it) ==
    \/ it.kind # "object"
    \/ it.cgId = NUM
    \/ (IsEmpty(it.cgId) /\ it.id = NUM)

\* is_garbage(text)
is_garbage(text) == ~IsEmpty(text) /\ text = GARBAGE

UvOptions == {"none", "bump", "set"}

\* --set-user-version 9, --bump-user-version, or neither (main of safe_patch).
safe_patch_user_version(v, uv) ==
    IF uv = "set" THEN 9
    ELSE IF uv = "bump" THEN v + 1
    ELSE v

\* A database whose writes go to the file one statement at a time.
uncommitted_kept(d, db, v) == [tokens |-> db, user_version |-> v]

\* What is in the file when a process ends with a transaction open: sqlite
\* drops the writes made since the last commit.
uncommitted_lost(d, db, v) == d

\* main of safe_patch_prebuilt_db.py up to the loop of apply_patches: the
\* database exists and ensure_schema found it compatible.
SafePatchStart(patch, dry_run, uv) ==
    /\ job.script = "none"
    /\ LET n == patch_items(patch)
       IN  job' = [NoJob EXCEPT !.script = "safe_patch",
                                !.phase = IF n.ok THEN "loop" ELSE "failed",
                                !.error = IF n.ok THEN "none" ELSE "ValueError",
                                !.shape = patch.shape,
                                !.items = n.items, !.all = n.items,
                                !.dry_run = dry_run, !.uv = uv,
                                !.before_uv = user_version]
    /\ UNCHANGED <<tokens, clock, run, last, result, user_version, disk>>
    /\ UNCHANGED <<fvars, evars, pvars>>

\* One iteration of "for it in items": an AttributeError leaves apply_patches
\* and main, the process ends and its open transaction is never committed.
SafePatchEntry ==
    /\ job.script = "safe_patch"
    /\ job.phase = "loop"
    /\ job.items # <<>>
    /\ LET it == Head(job.items)
           acc == patch_item([db |-> tokens, updated |-> job.updated,
                              missing |-> job.missing, skipped |-> job.skipped],
                             it, job.dry_run, clock)
       IN  IF entry_raises(it)
           THEN /\ disk' = uncommitted_lost(disk, tokens, user_version)
                /\ tokens' = disk'.tokens
                /\ job' = [job EXCEPT !.phase = "failed", !.error = "AttributeError"]
                /\ UNCHANGED user_version
           ELSE /\ tokens' = acc.db
                /\ job' = [job EXCEPT !.items = Tail(job.items),
                                      !.updated = acc.updated,
                                      !.missing = acc.missing,
                                      !.skipped = acc.skipped]
                /\ UNCHANGED <<user_version, disk>>
    /\ UNCHANGED <<clock, run, last, result>>
    /\ UNCHANGED <<fvars, evars, pvars>>

\* The end of apply_patches (conn.commit() unless --dry-run) and the
\* user_version handling of main with its commit.
SafePatchFinish ==
    /\ job.script = "safe_patch"
    /\ job.phase = "loop"
    /\ job.items = <<>>
    /\ user_version' = IF job.dry_run THEN user_version
                       ELSE safe_patch_user_version(user_version, job.uv)
    /\ disk' = IF job.dry_run THEN disk
               ELSE [tokens |-> tokens, user_version |-> user_version']
    /\ job' = [job EXCEPT !.phase = "done"]
    /\ UNCHANGED <<tokens, clock, run, last, result>>
    /\ UNCHANGED <<fvars, evars, pvars>>

\* A set as a sequence, in the order a dict hands out its keys.
RECURSIVE SetToSeq(_)
SetToSeq(S) ==
    IF S = {} THEN <<>>
    ELSE LET x == CHOOSE y \in S : TRUE IN <<x>> \o SetToSeq(S \ {x})

\* main of patch_descriptions.py up to BEGIN: no updates, nothing to do.
DescStart(data, overwrite, bump) ==
    /\ job.script = "none"
    /\ LET updates == load_json(data)
           keys == SetToSeq(DOMAIN updates)
           items == [k \in DOMAIN keys |-> Obj(keys[k], NULL, updates[keys[k]], NULL)]
       IN  job' = [NoJob EXCEPT !.script = "patch_descriptions",
                                !.phase = IF items = <<>> THEN "done" ELSE "loop",
                                !.items = items, !.all = items,
                                !.overwrite = overwrite,
                                !.uv = IF bump THEN "bump" ELSE "none",
                                !.before_uv = user_version]
    /\ UNCHANGED <<tokens, clock, run, last, result, user_version, disk>>
    /\ UNCHANGED <<fvars, evars, pvars>>

\* One iteration of "for cg_id, desc in updates.items()".
DescEntry ==
    /\ job.script = "patch_descriptions"
    /\ job.phase = "loop"
    /\ job.items # <<>>
    /\ LET it == Head(job.items)
           acc == desc_item([db |-> tokens, updated |-> job.updated,
                             skipped |-> job.skipped, matched |-> job.matched],
                            it.cgId, it.description, job.overwrite)
       IN  /\ tokens' = acc.db
           /\ job' = [job EXCEPT !.items = Tail(job.items),
                                 !.updated = acc.updated,
                                 !.skipped = acc.skipped,
                                 !.matched = acc.matched]
    /\ UNCHANGED <<clock, run, last, result, user_version, disk>>
    /\ UNCHANGED <<fvars, evars, pvars>>

\* The bump of user_version "if requested AND we actually updated something".
desc_user_version(v, uv, updated) ==
    IF uv = "bump" /\ updated > 0 THEN v + 1 ELSE v

\* The end of the try block: the bump and COMMIT.
DescFinish ==
    /\ job.script = "patch_descriptions"
    /\ job.phase = "loop"
    /\ job.items = <<>>
    /\ user_version' = desc_user_version(job.before_uv, job.uv, job.updated)
    /\ disk' = [tokens |-> tokens, user_version |-> user_version']
    /\ job' = [job EXCEPT !.phase = "done"]
    /\ UNCHANGED <<tokens, clock, run, last, result>>
    /\ UNCHANGED <<fvars, evars, pvars>>

\* A run is cut short inside its loop: an sqlite3 error (patch_descriptions
\* catches it and runs ROLLBACK), a signal, a kill.  Nothing was committed.
Aborted ==
    /\ job.script \in {"safe_patch", "patch_descriptions"}
    /\ job.phase = "loop"
    /\ disk' = uncommitted_lost(disk, tokens, user_version)
    /\ tokens' = disk'.tokens
    /\ user_version' = disk'.user_version
    /\ job' = [job EXCEPT !.phase = "failed", !.error = "aborted"]
    /\ UNCHANGED <<clock, run, last, result>>
    /\ UNCHANGED <<fvars, evars, pvars>>

\* main of clean_garbage_descriptions.py.
CleanGarbage(bump) ==
    /\ job.script = "none"
    /\ LET bad_ids == {id \in DOMAIN tokens :
                          /\ ~IsEmpty(tokens[id].description)
                          /\ is_garbage(tokens[id].description)}
       IN  /\ tokens' = [id \in DOMAIN tokens |->
                            IF id \in bad_ids
                            THEN [tokens[id] EXCEPT !.description = ""]
                            ELSE tokens[id]]
           /\ user_version' = IF bad_ids # {} /\ bump THEN user_version + 1
                              ELSE user_version
           /\ job' = [NoJob EXCEPT !.script = "clean_garbage", !.phase = "done",
                                   !.uv = IF bump THEN "bump" ELSE "none",
                                   !.updated = Cardinality(bad_ids),
                                   !.before_uv = user_version]
    /\ disk' = [tokens |-> tokens', user_version |-> user_version']
    /\ UNCHANGED <<clock, run, last, result>>
    /\ UNCHANGED <<fvars, evars, pvars>>

\* The database files a patch script is pointed at.
MainRows ==
    { [symbol |-> "s1", name |-> "n1", description |-> NULL, imageUrl |-> NULL, updatedAt |-> 0],
      [symbol |-> "s1", name |-> "n1", description |-> "d1", imageUrl |-> "i1", updatedAt |-> 1],
      [symbol |-> "s1", name |-> "n1", description |-> GARBAGE, imageUrl |-> "i1", updatedAt |-> 1] }

MainStores == UNION {[S -> MainRows] : S \in SUBSET IDS}

InitMain ==
    /\ tokens \in MainStores
    /\ clock = 2
    /\ run = Idle
    /\ last = [op |-> "none", ids |-> {}, items |-> <<>>]
    /\ result = NoResult
    /\ NoPipe
    /\ NoFetch
    /\ user_version \in {0, 3}
    /\ disk = [tokens |-> tokens, user_version |-> user_version]
    /\ job = NoJob
    /\ NoEnsure

NextMain ==
    \/ /\ job.script = "none"
       /\ \E patch \in PatchDocs, dry_run \in BOOLEAN, uv \in UvOptions :
             SafePatchStart(patch, dry_run, uv)
    \/ SafePatchEntry
    \/ SafePatchFinish
    \/ /\ job.script = "none"
       /\ \E data \in DescFiles, overwrite \in BOOLEAN, bump \in BOOLEAN :
             DescStart(data, overwrite, bump)
    \/ DescEntry
    \/ DescFinish
    \/ Aborted
    \/ \E bump \in BOOLEAN : CleanGarbage(bump)

SpecMain == InitMain /\ [][NextMain]_vars

\* ------------------------------------------------------------------ ensure_schema
\* ensure_schema of safe_patch_prebuilt_db.py, one SQL statement per step.
\* `conn` is the database as the connection sees it, `file` what is committed
\* and what a reopen after a crash finds.

\* The most rows a tokens table holds.
MaxRows == 2

Columns == {"cgId", "symbol", "name", "description", "imageUrl", "updatedAt"}

REQUIRED_NOT_NULL == {"cgId", "symbol", "name", "updatedAt"}

IDX_SYMBOL == "idx_tokens_symbol"
IDX_NAME == "idx_tokens_name"

\* TOKENS_SQL of the build scripts: cgId TEXT PRIMARY KEY, every column nullable.
BuildLayout == [cols |-> Columns, notnull |-> {}, pk |-> "cgId"]

\* CREATE_TOKENS_SQL
RoomLayout == [cols |-> Columns, notnull |-> REQUIRED_NOT_NULL, pk |-> "cgId"]

\* A shadow table created with the column list alone: no NOT NULL.
TokensNewNullable == [cols |-> Columns, notnull |-> {}, pk |-> "cgId"]

\* CREATE TABLE IF NOT EXISTS tokens_new(...)
TokensNewLayout == [cols |-> Columns, notnull |-> REQUIRED_NOT_NULL, pk |-> "cgId"]

\* The layouts a tokens table is found with: Room's, the build scripts', one
\* without a primary key, one without the imageUrl column.
Layouts ==
    { RoomLayout,
      BuildLayout,
      [cols |-> Columns, notnull |-> {}, pk |-> NULL],
      [cols |-> Columns \ {"imageUrl"}, notnull |-> REQUIRED_NOT_NULL, pk |-> "cgId"] }

\* SQL NULL in a column: updatedAt is an INTEGER, the others are TEXT.
Null(c) == IF c = "updatedAt" THEN -1 ELSE NULL

Row(cgId, symbol, name, description, imageUrl, updatedAt) ==
    [cgId |-> cgId, symbol |-> symbol, name |-> name,
     description |-> description, imageUrl |-> imageUrl, updatedAt |-> updatedAt]

SchemaRows ==
    { Row("bitcoin", "s1", "n1", "d1", "i1", 1),
      Row("bitcoin", "s1", "n1", NULL, NULL, 1),
      Row("ethereum", NULL, NULL, NULL, NULL, -1),
      Row(NULL, "s1", "n1", "d1", NULL, 1),
      Row(NULL, NULL, "n1", NULL, NULL, -1) }

\* The rows a table of a layout can hold: no NULL in a NOT NULL column, nothing
\* in a column it does not have, no two rows with the same non-null key.
RowsFit(layout, rows) ==
    /\ \A i \in DOMAIN rows :
          /\ \A c \in layout.notnull : rows[i][c] # Null(c)
          /\ \A c \in Columns \ layout.cols : rows[i][c] = Null(c)
    /\ layout.pk # NULL =>
          \A i, j \in DOMAIN rows :
             (i # j /\ rows[i][layout.pk] # NULL) => rows[i][layout.pk] # rows[j][layout.pk]

Table(layout, rows) ==
    [cols |-> layout.cols, notnull |-> layout.notnull, pk |-> layout.pk, rows |-> rows]

Tables ==
    {Table(l, rows) : l \in Layouts,
                      rows \in UNION {[1..n -> SchemaRows] : n \in 0..MaxRows}}

\* The database files ensure_schema is handed: no tokens table, or one that
\* fits its layout, with the two indexes of the build scripts.
Dbs ==
    {NoDb} \cup
    {[tokens |-> t, tokens_new |-> NoTable, indexes |-> {IDX_SYMBOL, IDX_NAME}] :
        t \in {x \in Tables : RowsFit(x, x.rows)}}

has_tokens_table(db) == db.tokens # NoTable

schema_is_room_compatible(db) ==
    IF ~has_tokens_table(db) THEN [ok |-> FALSE, reason |-> "tokens table missing"]
    ELSE IF \E c \in Columns : c \notin db.tokens.cols
    THEN [ok |-> FALSE, reason |-> "missing columns"]
    ELSE IF db.tokens.pk # "cgId"
    THEN [ok |-> FALSE, reason |-> "cgId is not PRIMARY KEY"]
    ELSE IF \E c \in REQUIRED_NOT_NULL : c \notin db.tokens.notnull
    THEN [ok |-> FALSE, reason |-> "NOT NULL mismatch"]
    ELSE [ok |-> TRUE, reason |-> "ok"]

\* SELECT COALESCE(cgId, ''), COALESCE(symbol, ''), COALESCE(name, ''),
\*        description, imageUrl, COALESCE(updatedAt, 0)
copied(row) ==
    Row(IF row.cgId = NULL THEN "" ELSE row.cgId,
        IF row.symbol = NULL THEN "" ELSE row.symbol,
        IF row.name = NULL THEN "" ELSE row.name,
        row.description,
        row.imageUrl,
        IF row.updatedAt = Null("updatedAt") THEN 0 ELSE row.updatedAt)

\* INSERT OR REPLACE into a table whose primary key is cgId.
insert_or_replace(rows, r) ==
    SelectSeq(rows, LAMBDA x : x.cgId # r.cgId) \o <<r>>

RECURSIVE copy_rows(_, _)
copy_rows(into, from) ==
    IF from = <<>> THEN into
    ELSE copy_rows(insert_or_replace(into, copied(Head(from))), Tail(from))

\* The statements of ensure_schema when the table is missing, and of
\* rebuild_tokens_table_room_schema.
CreateStatements == <<"CREATE_TOKENS", "IDX_SYMBOL", "IDX_NAME">>

RebuildStatements ==
    <<"BEGIN", "CREATE_TOKENS_NEW", "COPY", "DROP", "RENAME",
      "IDX_SYMBOL", "IDX_NAME", "COMMIT">>

\* One statement on the connection: the database after it, or an
\* sqlite3.OperationalError (a column the SELECT names is not there).
exec(db, stmt) ==
    CASE stmt = "CREATE_TOKENS" ->
           [ok |-> TRUE,
            db |-> IF db.tokens = NoTable
                   THEN [db EXCEPT !.tokens = Table(RoomLayout, <<>>)] ELSE db]
      [] stmt = "CREATE_TOKENS_NEW" ->
           [ok |-> TRUE,
            db |-> IF db.tokens_new = NoTable
                   THEN [db EXCEPT !.tokens_new = Table(TokensNewLayout, <<>>)] ELSE db]
      [] stmt = "COPY" ->
           IF Columns \subseteq db.tokens.cols
           THEN [ok |-> TRUE,
                 db |-> [db EXCEPT !.tokens_new.rows = copy_rows(@, db.tokens.rows)]]
           ELSE [ok |-> FALSE, db |-> db]
      [] stmt = "DROP" ->
           [ok |-> TRUE, db |-> [db EXCEPT !.tokens = NoTable, !.indexes = {}]]
      [] stmt = "RENAME" ->
           [ok |-> TRUE, db |-> [db EXCEPT !.tokens = db.tokens_new, !.tokens_new = NoTable]]
      [] stmt = "IDX_SYMBOL" ->
           [ok |-> TRUE, db |-> [db EXCEPT !.indexes = @ \cup {IDX_SYMBOL}]]
      [] stmt = "IDX_NAME" ->
           [ok |-> TRUE, db |-> [db EXCEPT !.indexes = @ \cup {IDX_NAME}]]
      [] OTHER -> [ok |-> TRUE, db |-> db]

\* A BEGIN that opens no transaction: every statement after it is committed
\* on its own.
begin_ignored(in_tx) == in_tx

\* conn.execute("BEGIN;")
begin(in_tx) == TRUE

\* Whether a transaction is open after a statement.
in_transaction(in_tx, stmt) ==
    IF stmt = "BEGIN" THEN begin(in_tx)
    ELSE IF stmt = "COMMIT" THEN FALSE
    ELSE in_tx

NoEns == [phase |-> "idle", path |-> "none", todo |-> <<>>, in_tx |-> FALSE,
          old |-> NoDb, error |-> "none"]

\* ensure_schema(conn) up to its first statement.
EnsureStart ==
    /\ ens.phase = "idle"
    /\ LET path == IF ~has_tokens_table(conn) THEN "create"
                   ELSE IF schema_is_room_compatible(conn).ok THEN "compatible"
                   ELSE "rebuild"
           todo == IF path = "create" THEN CreateStatements
                   ELSE IF path = "rebuild" THEN RebuildStatements
                   ELSE <<>>
       IN  ens' = [NoEns EXCEPT !.phase = IF todo = <<>> THEN "done" ELSE "running",
                                !.path = path, !.todo = todo, !.old = conn]
    /\ UNCHANGED <<conn, file>>
    /\ UNCHANGED <<svars, fvars, mvars, pvars>>

\* The next statement runs.  An error leaves ensure_schema and main: the
\* process ends and the open transaction, if any, is dropped.
EnsureStatement ==
    /\ ens.phase = "running"
    /\ LET stmt == Head(ens.todo)
           r == exec(conn, stmt)
           tx == in_transaction(ens.in_tx, stmt)
       IN  IF r.ok
           THEN /\ conn' = r.db
                /\ file' = IF tx THEN file ELSE r.db
                /\ ens' = [ens EXCEPT !.todo = Tail(ens.todo), !.in_tx = tx,
                                      !.phase = IF Tail(ens.todo) = <<>> THEN "done"
                                                ELSE "running"]
           ELSE /\ conn' = file
                /\ file' = file
                /\ ens' = [ens EXCEPT !.phase = "failed", !.in_tx = FALSE,
                                      !.error = "OperationalError"]
    /\ UNCHANGED <<svars, fvars, mvars, pvars>>

\* The process is killed between two statements; the file is opened again.
EnsureCrash ==
    /\ ens.phase = "running"
    /\ conn' = file
    /\ file' = file
    /\ ens' = [ens EXCEPT !.phase = "crashed", !.in_tx = FALSE]
    /\ UNCHANGED <<svars, fvars, mvars, pvars>>

InitEnsure ==
    /\ tokens = NoTokens
    /\ clock = 1
    /\ run = Idle
    /\ last = [op |-> "none", ids |-> {}, items |-> <<>>]
    /\ result = NoResult
    /\ NoPipe
    /\ NoFetch
    /\ NoMain
    /\ conn \in Dbs
    /\ file = conn
    /\ ens = NoEns

NextEnsure ==
    \/ EnsureStart
    \/ EnsureStatement
    \/ EnsureCrash

SpecEnsure == InitEnsure /\ [][NextEnsure]_vars

\* ------------------------------------------------------------------ build scripts: main()
\* main() of build_prebuilt_db.py and build_prebuilt_tokens.py, one step per
\* request, executemany or commit, on the database file `saved`.  `tokens` is
\* the table as the open connection sees it: it holds the writes not yet
\* committed, which an exit of the process drops.

\* The detail loop commits every CommitEvery rows (processed % 25 == 0 in the
\* scripts) and the markets loop asks for ChunkLen ids at a time (200 in
\* build_prebuilt_db.py): the model scales both to the few ids it has.
CommitEvery == 2
ChunkLen == 1

\* The ids the coin list can carry: the resolver takes chosen["id"] as it is.
UpstreamIds == IDS \cup {""}

\* What map_symbols_to_cg_ids can return.
CoinLists ==
    UNION {{rows \in [S -> Labels] : \A id \in S : rows[id] \in UpstreamLabels(id)}
           : S \in SUBSET UpstreamIds}

\* Bodies of the detail endpoint a run is answered with.
RunDetails ==
    { [description |-> "d1", image |-> [large |-> NULL, small |-> "i1", thumb |-> "i2"]],
      [description |-> "<p></p>", image |-> [large |-> NULL, small |-> NULL, thumb |-> NULL]] }

\* A main() in which --resume is not looked at: every run seeds.
resume_branch_never(script, resume, exists) == FALSE

\* build_prebuilt_db.py: if args.resume and os.path.exists(args.out)
\* build_prebuilt_tokens.py: if args.resume
resume_branch(script, resume, exists) ==
    IF script = "build_db" THEN resume /\ exists ELSE resume

\* A "with db:" block that keeps its updates when the block raises.
with_db_kept(before, after, raised) == after

\* "with db:": commit when the block ends, rollback when it raises.
with_db(before, after, raised) == IF raised THEN before ELSE after

\* A process exit that writes the open transaction to the file.
rollback_kept(committed, view) == view

\* The process ends without db.commit(): sqlite drops the open transaction.
rollback(committed, view) == committed

\* The run p after begin_enrich or begin_detail gave r: the next loop, or the
\* db.commit() that ends enrich_details when nothing is left to ask for.
entered(p, r) ==
    IF r.phase = "idle"
    THEN [p EXCEPT !.phase = "flush", !.todo = {}]
    ELSE [p EXCEPT !.phase = r.phase, !.ids = r.ids, !.todo = r.todo, !.now = r.now]

\* A main() that seeds after it has enriched.
after_enrich_seed(p) == [p EXCEPT !.phase = "seed", !.todo = {}]

\* main() after enrich_details has returned: db.close(), "[done]".
after_enrich(p) == [p EXCEPT !.phase = "done", !.todo = {}]

Stopped == {"idle", "done", "cancelled", "failed"}

Op(op, ids) == [op |-> op, ids |-> ids, items |-> <<>>]

\* main() up to its first request: open_db, then the --resume branch or the
\* seed phase.
RunOpen(script, resume, force, skip_images) ==
    /\ pipe.phase \in Stopped
    /\ LET db == open_db(saved.tokens, resume, force)
           p  == [NoRun EXCEPT !.script = script, !.resume = resume,
                               !.skip_images = skip_images]
       IN  /\ tokens' = db
           /\ saved' = [exists |-> TRUE, tokens |-> db]
           /\ pipe' = IF resume_branch(script, resume, saved'.exists)
                      THEN entered(p, begin_enrich(script, skip_images, db, clock))
                      ELSE [p EXCEPT !.phase = "seed"]
           /\ hist' = [NoHist EXCEPT !.last_commit = db]
    /\ last' = Op("open", {})
    /\ UNCHANGED <<clock, run, result>>
    /\ UNCHANGED <<fvars, mvars, evars>>

\* seed_rows_from_crypto_com: both list requests are answered and
\* cur.executemany(UPSERT, buf) has run (fewer than 500 rows: one buffer).
RunSeed(rows) ==
    /\ pipe.phase = "seed"
    /\ tokens' = seed_rows(tokens, rows, DOMAIN rows)
    /\ pipe' = [pipe EXCEPT !.phase = "seeded"]
    /\ hist' = [hist EXCEPT !.requests = @ \cup {"get-instruments", "coins/list"}]
    /\ last' = Op("seed", DOMAIN rows)
    /\ UNCHANGED <<clock, run, result, saved>>
    /\ UNCHANGED <<fvars, mvars, evars>>

\* A list request of the seed phase raises out of request_json: nothing
\* catches it, main() ends with the exception.
RunSeedFails(url) ==
    /\ pipe.phase = "seed"
    /\ saved' = [saved EXCEPT !.tokens = rollback(saved.tokens, tokens)]
    /\ tokens' = saved'.tokens
    /\ pipe' = [pipe EXCEPT !.phase = "failed"]
    /\ hist' = [hist EXCEPT !.requests =
                   @ \cup (IF url = "coins/list" THEN {"get-instruments", "coins/list"}
                           ELSE {"get-instruments"})]
    /\ last' = Op("seed_failed", {})
    /\ UNCHANGED <<clock, run, result>>
    /\ UNCHANGED <<fvars, mvars, evars>>

\* db.commit() after executemany, then list_ids_needing_enrich and the start
\* of enrich_details.
RunSeedCommit ==
    /\ pipe.phase = "seeded"
    /\ saved' = [saved EXCEPT !.tokens = tokens]
    /\ pipe' = entered(pipe, begin_enrich(pipe.script, pipe.skip_images, tokens, clock))
    /\ hist' = [hist EXCEPT !.last_commit = tokens]
    /\ last' = Op("seed_commit", {})
    /\ UNCHANGED <<tokens, clock, run, result>>
    /\ UNCHANGED <<fvars, mvars, evars>>

\* The loop of enrich_images_via_markets goes on with the next batch, or
\* enrich_details goes on to its own loop.
after_batch(p, batch, db, now) ==
    IF p.todo \ batch = {}
    THEN entered(p, begin_detail(p.script, p.skip_images, db, p.ids, now))
    ELSE [p EXCEPT !.todo = p.todo \ batch]

\* One batch of enrich_images_via_markets answered with arr and applied inside
\* "with db:".  With raised, the response holds an entry that is no object
\* after the items of arr: it.get raises, the block is left by the exception
\* and "except Exception" logs the batch.
RunMarkets(batch, arr, raised) ==
    /\ pipe.phase = "markets"
    /\ batch \subseteq pipe.todo
    /\ Cardinality(batch) = Min(ChunkLen, Cardinality(pipe.todo))
    /\ tokens' = with_db(tokens, markets_apply(tokens, arr, DOMAIN arr, pipe.now), raised)
    /\ saved' = [saved EXCEPT !.tokens = tokens']
    /\ pipe' = after_batch(pipe, batch, tokens', clock)
    /\ hist' = [hist EXCEPT !.requests = @ \cup {"coins/markets"},
                            !.enriched = @ \/ \E cid \in DOMAIN arr :
                                                 cid # "" /\ ~IsEmpty(arr[cid]),
                            !.failed = IF raised THEN @ \cup batch ELSE @,
                            !.last_commit = IF raised THEN @ ELSE tokens']
    /\ last' = Op(IF raised THEN "markets_raised" ELSE "markets", batch)
    /\ UNCHANGED <<clock, run, result>>
    /\ UNCHANGED <<fvars, mvars, evars>>

\* One batch whose request raises out of request_json: logged, the loop goes on.
RunMarketsFails(batch) ==
    /\ pipe.phase = "markets"
    /\ batch \subseteq pipe.todo
    /\ Cardinality(batch) = Min(ChunkLen, Cardinality(pipe.todo))
    /\ pipe' = after_batch(pipe, batch, tokens, clock)
    /\ hist' = [hist EXCEPT !.requests = @ \cup {"coins/markets"},
                            !.failed = @ \cup batch]
    /\ last' = Op("markets_failed", batch)
    /\ UNCHANGED <<tokens, clock, run, result, saved>>
    /\ UNCHANGED <<fvars, mvars, evars>>

\* A loop that does not move on: the id it has asked for stays to do.
after_detail_again(p, cid) == p

\* The per-id loop of enrich_details goes on, or has ended.
after_detail(p, cid) ==
    IF p.todo = {cid} THEN [p EXCEPT !.phase = "flush", !.todo = {}]
    ELSE [p EXCEPT !.todo = p.todo \ {cid}]

\* One iteration of the per-id loop answered with data: the UPDATE, then
\* db.commit() every CommitEvery rows.
RunDetail(cid, data) ==
    /\ pipe.phase = "detail"
    /\ cid \in pipe.todo
    /\ tokens' = detail_write(pipe.script, pipe.skip_images, tokens, cid, data, pipe.now)
    /\ LET commit == (pipe.processed + 1) % CommitEvery = 0
       IN  /\ saved' = IF commit THEN [saved EXCEPT !.tokens = tokens'] ELSE saved
           /\ hist' = [hist EXCEPT !.requests = @ \cup {"coins/id"},
                                   !.enriched = TRUE,
                                   !.last_commit = IF commit THEN tokens' ELSE @]
    /\ pipe' = [after_detail(pipe, cid) EXCEPT !.processed = @ + 1]
    /\ last' = Op("detail", {cid})
    /\ UNCHANGED <<clock, run, result>>
    /\ UNCHANGED <<fvars, mvars, evars>>

\* One iteration whose request or processing raises: "except Exception" logs
\* it, the row is not written.
RunDetailFails(cid) ==
    /\ pipe.phase = "detail"
    /\ cid \in pipe.todo
    /\ pipe' = after_detail(pipe, cid)
    /\ hist' = [hist EXCEPT !.requests = @ \cup {"coins/id"},
                            !.failed = @ \cup {cid}]
    /\ last' = Op("detail_failed", {cid})
    /\ UNCHANGED <<tokens, clock, run, result, saved>>
    /\ UNCHANGED <<fvars, mvars, evars>>

\* The db.commit() that ends enrich_details, then the end of main().
RunFlush ==
    /\ pipe.phase = "flush"
    /\ saved' = [saved EXCEPT !.tokens = tokens]
    /\ pipe' = after_enrich(pipe)
    /\ hist' = [hist EXCEPT !.last_commit = tokens]
    /\ last' = Op("flush", {})
    /\ UNCHANGED <<tokens, clock, run, result>>
    /\ UNCHANGED <<fvars, mvars, evars>>

\* KeyboardInterrupt (sys.exit(130)) or a kill of the process, between two
\* steps of the run: the connection is gone, the file is what a reopen finds.
RunExit ==
    /\ pipe.phase \notin Stopped
    /\ saved' = [saved EXCEPT !.tokens = rollback(saved.tokens, tokens)]
    /\ tokens' = saved'.tokens
    /\ pipe' = [pipe EXCEPT !.phase = "cancelled"]
    /\ last' = Op("exit", {})
    /\ UNCHANGED <<clock, run, result, hist>>
    /\ UNCHANGED <<fvars, mvars, evars>>

InitRun ==
    /\ tokens = NoTokens
    /\ clock = 1
    /\ run = Idle
    /\ last = [op |-> "none", ids |-> {}, items |-> <<>>]
    /\ result = NoResult
    /\ NoPipe
    /\ NoFetch
    /\ NoMain
    /\ NoEnsure

NextRun ==
    \/ /\ pipe.phase \in Stopped
       /\ \E script \in BuildScripts, resume \in BOOLEAN, force \in BOOLEAN,
             skip_images \in BOOLEAN : RunOpen(script, resume, force, skip_images)
    \/ /\ pipe.phase = "seed"
       /\ \E rows \in CoinLists : RunSeed(rows)
    \/ \E url \in {"get-instruments", "coins/list"} : RunSeedFails(url)
    \/ RunSeedCommit
    \/ /\ pipe.phase = "markets"
       /\ \E batch \in SUBSET pipe.todo, arr \in MarketsData, raised \in BOOLEAN :
             RunMarkets(batch, arr, raised)
    \/ /\ pipe.phase = "markets"
       /\ \E batch \in SUBSET pipe.todo : RunMarketsFails(batch)
    \/ \E cid \in UpstreamIds, data \in RunDetails : RunDetail(cid, data)
    \/ \E cid \in UpstreamIds : RunDetailFails(cid)
    \/ RunFlush
    \/ RunExit

SpecRun == InitRun /\ [][NextRun]_vars

\* ------------------------------------------------------------------ the store over its life
\* Build runs and safe_patch_prebuilt_db.py runs on one file, in any order, one
\* script at a time.

\* The table as the rows of a SELECT, and the rows of a table as the function
\* cgId -> row of the build model.
RECURSIVE as_rows(_, _)
as_rows(db, left) ==
    IF left = {} THEN <<>>
    ELSE LET id == CHOOSE x \in left : TRUE
         IN  <<Row(id, db[id].symbol, db[id].name, db[id].description,
                   db[id].imageUrl, db[id].updatedAt)>> \o as_rows(db, left \ {id})

as_tokens(rows) ==
    [id \in {rows[i].cgId : i \in DOMAIN rows} |->
        LET r == rows[CHOOSE i \in DOMAIN rows : rows[i].cgId = id]
        IN  [symbol |-> r.symbol, name |-> r.name, description |-> r.description,
             imageUrl |-> r.imageUrl, updatedAt |-> r.updatedAt]]

\* A copy that stamps every row anew instead of carrying updatedAt over.
rebuild_rows_restamped(rows) ==
    [i \in DOMAIN rows |-> [copied(rows[i]) EXCEPT !.updatedAt = 0]]

\* rebuild_tokens_table_room_schema: the rows of tokens_new after the copy.
rebuild_rows(rows) == copy_rows(<<>>, rows)

\* The patch files safe_patch_prebuilt_db.py is given.
LifePatches ==
    { <<[cgId |-> "bitcoin", id |-> NULL, description |-> "d2", imageUrl |-> NULL]>>,
      <<[cgId |-> NULL, id |-> "ethereum", description |-> "", imageUrl |-> "i2"]>> }

\* safe_patch_prebuilt_db.py between two build runs: ensure_schema, then
\* apply_patches on one patch file, then commit.  The file of a build script
\* has the build layout until its first rebuild; the layout is not followed
\* here, and rebuild says whether ensure_schema found it.
LifeSafePatch(items, rebuild) ==
    /\ run.script = "none"
    /\ last.op # "none"
    /\ LET db == IF rebuild THEN as_tokens(rebuild_rows(as_rows(tokens, DOMAIN tokens)))
                 ELSE tokens
       IN  tokens' = apply_patches(db, items, FALSE, clock).db
    /\ last' = [op |-> IF rebuild THEN "rebuild_and_patch" ELSE "apply_patches",
                ids |-> batch_ids(items), items |-> items]
    /\ UNCHANGED <<clock, run, result>>
    /\ UNCHANGED fvars
    /\ UNCHANGED <<mvars, evars, pvars>>

NextLife ==
    \/ Next
    \/ \E items \in LifePatches, rebuild \in BOOLEAN : LifeSafePatch(items, rebuild)

SpecLife == Init /\ [][NextLife]_vars

\* ------------------------------------------------------------------ build_offline_db.py: main()

\* main() of build_offline_db.py on allcryptotokens.db: one step per coin of
\* resolved_ids.  `tokens` is the table as the connection sees it, `saved` the
\* file, `user_version` the PRAGMA of that file.

\* conn.commit() every COMMIT_EVERY coins (5 in the script), scaled to the ids
\* of the model.
COMMIT_EVERY == 2

\* html.unescape, tags replaced by " ", whitespace collapsed and stripped, on
\* the raw texts of RawDescs; None and "" give "".
clean_text(s) ==
    IF IsEmpty(s) THEN ""
    ELSE CASE s = "<p></p>"    -> ""
           [] s = "<b>d2</b>"  -> "d2"
           [] OTHER            -> s

\* detail.get("symbol", "").upper()
upper(sym) ==
    CASE sym = "s1" -> "S1"
      [] sym = "s2" -> "S2"
      [] OTHER -> sym

\* desc = clean_text(...); if not desc: the sentence made of the name and the
\* categories (none here).
offline_desc(detail) ==
    LET desc == clean_text(detail.description)
    IN  IF desc = "" THEN detail.name \o " is a cryptocurrency used in ." ELSE desc

\* The row main() hands to upsert.
offline_row(cid, detail, now) ==
    [cgId |-> cid, name |-> detail.name, symbol |-> upper(detail.symbol),
     description |-> offline_desc(detail), imageUrl |-> detail.image.large,
     updatedAt |-> now, sourceVersion |-> 1]

\* INSERT ... ON CONFLICT(cgId) DO UPDATE: every column is taken from the new
\* row, the description only when the new one is not NULL or blank.
upsert(db, row) ==
    LET fresh == [name |-> row.name, symbol |-> row.symbol,
                  description |-> row.description, imageUrl |-> row.imageUrl,
                  updatedAt |-> row.updatedAt, sourceVersion |-> row.sourceVersion]
    IN  [id \in DOMAIN db \cup {row.cgId} |->
            IF id # row.cgId THEN db[id]
            ELSE IF id \in DOMAIN db
                 THEN [fresh EXCEPT !.description =
                          IF IsEmpty(row.description) THEN db[id].description
                          ELSE row.description]
                 ELSE fresh]

\* Answers of the detail endpoint to build_offline_db.py.
OfflineDetails ==
    { [name |-> "n1", symbol |-> "s1", description |-> d, image |-> [large |-> i]] :
         d \in {"d1", "<p></p>"}, i \in {NULL, "i1"} }

\* main() up to the loop: the two list requests have been answered,
\* resolved_ids is made, the file is opened and ensure_schema has committed.
OfflineStart(ids) ==
    /\ pipe.phase \in Stopped
    /\ pipe' = [NoRun EXCEPT !.script = "offline_db",
                             !.phase = IF ids = {} THEN "flush" ELSE "detail",
                             !.ids = ids, !.todo = ids, !.now = clock * 1000]
    /\ saved' = [saved EXCEPT !.exists = TRUE]
    /\ hist' = [NoHist EXCEPT !.requests = {"get-ticker", "coins/list"},
                              !.last_commit = saved.tokens]
    /\ last' = Op("open", {})
    /\ UNCHANGED <<tokens, clock, run, result>>
    /\ UNCHANGED <<fvars, mvars, evars>>

\* One of the two list requests is not answered with 200: get_json raises,
\* main() ends before the file is opened.
OfflineStartFails(url) ==
    /\ pipe.phase \in Stopped
    /\ pipe' = [NoRun EXCEPT !.script = "offline_db", !.phase = "failed"]
    /\ hist' = [NoHist EXCEPT !.requests = {url}, !.last_commit = saved.tokens]
    /\ last' = Op("seed_failed", {})
    /\ UNCHANGED <<tokens, clock, run, result, saved>>
    /\ UNCHANGED <<fvars, mvars, evars>>

\* One iteration answered with detail: the upsert, then conn.commit() every
\* COMMIT_EVERY coins.
OfflineDetail(cid, detail) ==
    /\ pipe.script = "offline_db"
    /\ pipe.phase = "detail"
    /\ cid \in pipe.todo
    /\ tokens' = upsert(tokens, offline_row(cid, detail, pipe.now))
    /\ LET commit == (pipe.processed + 1) % COMMIT_EVERY = 0
       IN  /\ saved' = IF commit THEN [saved EXCEPT !.tokens = tokens'] ELSE saved
           /\ hist' = [hist EXCEPT !.requests = @ \cup {"coins/id"},
                                   !.enriched = TRUE,
                                   !.last_commit = IF commit THEN tokens' ELSE @]
    /\ pipe' = [after_detail(pipe, cid) EXCEPT !.processed = @ + 1]
    /\ last' = Op("detail", {cid})
    /\ UNCHANGED <<clock, run, result>>
    /\ UNCHANGED <<fvars, mvars, evars>>

\* One iteration whose get_json raises (any status but 200, a timeout) or
\* whose upsert does (an answer without name, name being NOT NULL): the loop
\* has no try, the exception leaves main() and the process ends without a
\* commit.
OfflineDetailFails(cid) ==
    /\ pipe.script = "offline_db"
    /\ pipe.phase = "detail"
    /\ cid \in pipe.todo
    /\ tokens' = rollback(saved.tokens, tokens)
    /\ pipe' = [pipe EXCEPT !.phase = "failed"]
    /\ hist' = [hist EXCEPT !.requests = @ \cup {"coins/id"},
                            !.failed = @ \cup {cid}]
    /\ last' = Op("detail_failed", {cid})
    /\ UNCHANGED <<clock, run, result, saved>>
    /\ UNCHANGED <<fvars, mvars, evars>>

\* After the loop: conn.commit(), PRAGMA user_version = 3, commit, close.
OfflineFinish ==
    /\ pipe.script = "offline_db"
    /\ pipe.phase = "flush"
    /\ saved' = [saved EXCEPT !.tokens = tokens]
    /\ user_version' = 3
    /\ pipe' = after_enrich(pipe)
    /\ hist' = [hist EXCEPT !.last_commit = tokens]
    /\ last' = Op("flush", {})
    /\ UNCHANGED <<tokens, clock, run, result, disk, job>>
    /\ UNCHANGED <<fvars, evars>>

NextOffline ==
    \/ \E ids \in SUBSET IDS : OfflineStart(ids)
    \/ \E url \in {"get-ticker", "coins/list"} : OfflineStartFails(url)
    \/ \E cid \in IDS, detail \in OfflineDetails : OfflineDetail(cid, detail)
    \/ \E cid \in IDS : OfflineDetailFails(cid)
    \/ OfflineFinish
    \/ RunExit

SpecOffline == InitRun /\ [][NextOffline]_vars

\* ------------------------------------------------------------------ patch scripts on a bumped file

\* The patch scripts started on a file whose user_version earlier runs have
\* bumped (or set) past the value --set-user-version is given here.
InitVersion ==
    /\ tokens \in MainStores
    /\ clock = 2
    /\ run = Idle
    /\ last = [op |-> "none", ids |-> {}, items |-> <<>>]
    /\ result = NoResult
    /\ NoPipe
    /\ NoFetch
    /\ user_version \in {3, 10}
    /\ disk = [tokens |-> tokens, user_version |-> user_version]
    /\ job = NoJob
    /\ NoEnsure

SpecVersion == InitVersion /\ [][NextMain]_vars

\* ------------------------------------------------------------------ safe_patch main(): ensure_schema under --dry-run

\* main() of safe_patch_prebuilt_db.py has parsed its arguments, copied the
\* backup and connected: ensure_schema(conn) is called next, whatever
\* --dry-run says.
InitDry ==
    /\ tokens = NoTokens
    /\ clock = 1
    /\ run = Idle
    /\ last = [op |-> "none", ids |-> {}, items |-> <<>>]
    /\ result = NoResult
    /\ NoPipe
    /\ NoFetch
    /\ user_version = 0
    /\ disk = [tokens |-> NoTokens, user_version |-> 0]
    /\ \E dry_run \in BOOLEAN :
          job = [NoJob EXCEPT !.script = "safe_patch", !.phase = "ensure",
                              !.dry_run = dry_run]
    /\ conn \in Dbs
    /\ file = conn
    /\ ens = NoEns

SpecDry == InitDry /\ [][NextEnsure]_vars

\* ------------------------------------------------------------------ patch scripts: the schema step and the first write

\* main() of safe_patch_prebuilt_db.py and of patch_descriptions.py from the
\* connect to the first UPDATE, on a file with any of the layouts.

\* apply_patches: UPDATE tokens SET description = COALESCE(?, description), ...,
\* updatedAt = ? WHERE cgId = ?, for an entry that carries a description.
patch_rows(t, cgId, desc, ts) ==
    [t EXCEPT !.rows = [i \in DOMAIN t.rows |->
        IF t.rows[i].cgId = cgId
        THEN [t.rows[i] EXCEPT !.description = desc, !.updatedAt = ts]
        ELSE t.rows[i]]]

\* patch_descriptions.py: UPDATE tokens SET description=? WHERE cgId=?
\* [AND (description IS NULL OR description='')]
desc_rows(t, cgId, desc, overwrite) ==
    [t EXCEPT !.rows = [i \in DOMAIN t.rows |->
        IF t.rows[i].cgId = cgId /\ (overwrite \/ IsEmpty(t.rows[i].description))
        THEN [t.rows[i] EXCEPT !.description = desc]
        ELSE t.rows[i]]]

\* ensure_schema(conn), the first thing main() of safe_patch does with the
\* connection.
GuardEnsure ==
    /\ job.script = "safe_patch"
    /\ \/ EnsureStart
       \/ EnsureStatement
       \/ EnsureCrash

\* apply_patches after ensure_schema has returned: one entry, then the commit
\* (neither under --dry-run).
GuardSafePatch(cgId, desc) ==
    /\ job.script = "safe_patch"
    /\ job.phase = "ensure"
    /\ ens.phase = "done"
    /\ conn' = IF job.dry_run THEN conn
               ELSE [conn EXCEPT !.tokens = patch_rows(@, cgId, desc, clock)]
    /\ file' = conn'
    /\ job' = [job EXCEPT !.phase = "done"]
    /\ last' = Op("apply_patches", {cgId})
    /\ UNCHANGED <<tokens, clock, run, result, user_version, disk, ens>>
    /\ UNCHANGED <<fvars, pvars>>

\* patch_descriptions.py: BEGIN, the test that a table named tokens exists
\* (RuntimeError and ROLLBACK without one), one UPDATE, COMMIT.  The layout of
\* the table is not looked at.
GuardDescPatch(cgId, desc, overwrite) ==
    /\ job.script = "patch_descriptions"
    /\ job.phase = "ensure"
    /\ IF ~has_tokens_table(conn)
       THEN /\ job' = [job EXCEPT !.phase = "failed", !.error = "RuntimeError"]
            /\ UNCHANGED <<conn, file>>
       ELSE /\ job' = [job EXCEPT !.phase = "done", !.overwrite = overwrite]
            /\ conn' = [conn EXCEPT !.tokens = desc_rows(@, cgId, desc, overwrite)]
            /\ file' = conn'
    /\ last' = Op("patch_descriptions", {cgId})
    /\ UNCHANGED <<tokens, clock, run, result, user_version, disk, ens>>
    /\ UNCHANGED <<fvars, pvars>>

InitGuard ==
    /\ tokens = NoTokens
    /\ clock = 2
    /\ run = Idle
    /\ last = [op |-> "none", ids |-> {}, items |-> <<>>]
    /\ result = NoResult
    /\ NoPipe
    /\ NoFetch
    /\ user_version = 0
    /\ disk = [tokens |-> NoTokens, user_version |-> 0]
    /\ \E script \in {"safe_patch", "patch_descriptions"}, dry_run \in BOOLEAN :
          /\ dry_run => script = "safe_patch"
          /\ job = [NoJob EXCEPT !.script = script, !.phase = "ensure",
                                 !.dry_run = dry_run]
    /\ conn \in Dbs
    /\ file = conn
    /\ ens = NoEns

NextGuard ==
    \/ GuardEnsure
    \/ \E cgId \in IDS, desc \in {"d2"} : GuardSafePatch(cgId, desc)
    \/ \E cgId \in IDS, desc \in {"d2"}, overwrite \in BOOLEAN :
          GuardDescPatch(cgId, desc, overwrite)

SpecGuard == InitGuard /\ [][NextGuard]_vars

\* ------------------------------------------------------------------ requests of build_offline_db.py and fill_missing_descriptions_strict.py

\* The two scripts that call requests directly: get_json of build_offline_db.py
\* and fetch_coingecko_coin / safe_get of fill_missing_descriptions_strict.py.
\* `wire` notes when the last two requests started, `time` is in tenths of a
\* second, `pipe` is where the script is.

\* SLEEP_SEC = 12.0 of build_offline_db.py and the default of --delay.
SLEEP_SEC == 120
DELAY == 120

\* candidate_pages returns the homepage and seven paths, github_readme_text
\* tries four raw URLs: the model follows fewer of each.
MaxPages == 2
MaxReadme == 2

HelperIdle == [script |-> "none", phase |-> "idle", todo |-> {}, left |-> 0]

\* session.get / requests.get goes out now: nothing waits for the request
\* before it.
sent_now(w, now) == [inflight |-> w.inflight, start |-> now, prev_start |-> w.start]

\* build_offline_db.py: fetch_cryptocom_symbols, the first request of main().
OfflineTicker(ok, dur) ==
    /\ pipe.phase = "idle"
    /\ wire' = sent_now(NoWire, time)
    /\ time' = time + dur
    /\ pipe' = [HelperIdle EXCEPT !.script = "offline_db",
                                  !.phase = IF ok THEN "list" ELSE "failed"]
    /\ UNCHANGED <<_last_call_ts, req, saved, hist>>
    /\ UNCHANGED <<svars, mvars, evars>>

\* build_cg_index, called on the next line; resolved_ids is made from it.
OfflineList(ok, ids, dur) ==
    /\ pipe.script = "offline_db"
    /\ pipe.phase = "list"
    /\ wire' = sent_now(wire, time)
    /\ time' = time + dur
    /\ pipe' = [pipe EXCEPT !.phase = IF ~ok THEN "failed"
                                      ELSE IF ids = {} THEN "done" ELSE "detail",
                            !.todo = IF ok THEN ids ELSE {}]
    /\ UNCHANGED <<_last_call_ts, req, saved, hist>>
    /\ UNCHANGED <<svars, mvars, evars>>

\* One iteration of the loop of main(): get_json, the upsert, then
\* time.sleep(SLEEP_SEC); a failed get_json ends the run.
OfflineRequest(cid, ok, dur) ==
    /\ pipe.script = "offline_db"
    /\ pipe.phase = "detail"
    /\ cid \in pipe.todo
    /\ wire' = sent_now(wire, time)
    /\ time' = IF ok THEN time + dur + SLEEP_SEC ELSE time + dur
    /\ pipe' = IF ~ok THEN [pipe EXCEPT !.phase = "failed"]
               ELSE [pipe EXCEPT !.todo = @ \ {cid},
                                 !.phase = IF pipe.todo = {cid} THEN "done" ELSE "detail"]
    /\ UNCHANGED <<_last_call_ts, req, saved, hist>>
    /\ UNCHANGED <<svars, mvars, evars>>

\* fill_missing_descriptions_strict.py: get_missing_rows reads the ids, no
\* request yet.
FillStart(ids) ==
    /\ pipe.phase = "idle"
    /\ pipe' = [HelperIdle EXCEPT !.script = "fill_missing",
                                  !.phase = IF ids = {} THEN "done" ELSE "coin",
                                  !.todo = ids]
    /\ UNCHANGED <<time, _last_call_ts, req, wire, saved, hist>>
    /\ UNCHANGED <<svars, mvars, evars>>

\* resolve_description_for_token has returned or raised for the token in
\* hand: main() notes the result and sleeps --delay before the next token.
next_token(p) ==
    LET cid == CHOOSE x \in p.todo : TRUE
    IN  [p EXCEPT !.todo = @ \ {cid}, !.left = 0,
                  !.phase = IF p.todo = {cid} THEN "done" ELSE "coin"]

\* fetch_coingecko_coin for the token in hand.  The description is long
\* enough (or the request raised, or there is neither homepage nor repo):
\* back to main().  Otherwise the homepage pages or the README come next.
FillCoin(outcome, dur) ==
    /\ pipe.script = "fill_missing"
    /\ pipe.phase = "coin"
    /\ wire' = sent_now(wire, time)
    /\ IF outcome = "back"
       THEN /\ time' = time + dur + DELAY
            /\ pipe' = next_token(pipe)
       ELSE /\ time' = time + dur
            /\ pipe' = [pipe EXCEPT !.phase = outcome,
                                    !.left = IF outcome = "pages" THEN MaxPages
                                             ELSE MaxReadme]
    /\ UNCHANGED <<_last_call_ts, req, saved, hist>>
    /\ UNCHANGED <<svars, mvars, evars>>

\* safe_get of one candidate page.  With found, the text is returned at once;
\* otherwise time.sleep(delay) and the next page, and after the last page the
\* README when there is a repo.
FillPage(found, github, dur) ==
    /\ pipe.script = "fill_missing"
    /\ pipe.phase = "pages"
    /\ wire' = sent_now(wire, time)
    /\ IF found
       THEN /\ time' = time + dur + DELAY
            /\ pipe' = next_token(pipe)
       ELSE IF pipe.left > 1
       THEN /\ time' = time + dur + DELAY
            /\ pipe' = [pipe EXCEPT !.left = @ - 1]
       ELSE IF github
       THEN /\ time' = time + dur + DELAY
            /\ pipe' = [pipe EXCEPT !.phase = "readme", !.left = MaxReadme]
       ELSE /\ time' = time + dur + DELAY + DELAY
            /\ pipe' = next_token(pipe)
    /\ UNCHANGED <<_last_call_ts, req, saved, hist>>
    /\ UNCHANGED <<svars, mvars, evars>>

\* safe_get of one raw README URL in github_readme_text: the first that
\* answers is returned, a failure goes on to the next URL at once.
FillReadme(ok, dur) ==
    /\ pipe.script = "fill_missing"
    /\ pipe.phase = "readme"
    /\ wire' = sent_now(wire, time)
    /\ IF ok \/ pipe.left = 1
       THEN /\ time' = time + dur + DELAY
            /\ pipe' = next_token(pipe)
       ELSE /\ time' = time + dur
            /\ pipe' = [pipe EXCEPT !.left = @ - 1]
    /\ UNCHANGED <<_last_call_ts, req, saved, hist>>
    /\ UNCHANGED <<svars, mvars, evars>>

InitHelpers ==
    /\ tokens = NoTokens
    /\ clock = 1
    /\ run = Idle
    /\ last = [op |-> "none", ids |-> {}, items |-> <<>>]
    /\ result = NoResult
    /\ pipe = HelperIdle
    /\ saved = [exists |-> FALSE, tokens |-> NoTokens]
    /\ hist = NoHist
    /\ NoFetch
    /\ NoMain
    /\ NoEnsure

NextHelpers ==
    \/ \E ok \in BOOLEAN, dur \in Durations : OfflineTicker(ok, dur)
    \/ \E ok \in BOOLEAN, ids \in SUBSET IDS, dur \in Durations : OfflineList(ok, ids, dur)
    \/ \E cid \in IDS, ok \in BOOLEAN, dur \in Durations : OfflineRequest(cid, ok, dur)
    \/ \E ids \in SUBSET IDS : FillStart(ids)
    \/ \E outcome \in {"back", "pages", "readme"}, dur \in Durations : FillCoin(outcome, dur)
    \/ \E found \in BOOLEAN, github \in BOOLEAN, dur \in Durations :
          FillPage(found, github, dur)
    \/ \E ok \in BOOLEAN, dur \in Durations : FillReadme(ok, dur)

SpecHelpers == InitHelpers /\ [][NextHelpers]_vars

\* ------------------------------------------------------------------ build scripts: the first run, from the symbols on

\* The base symbols fetch_crypto_com_symbols returns (sorted): two that the
\* coin list can carry and one it never does.
Universe == <<"S1", "S2", "ZZZ">>

\* Bodies of coins/list: each id at most once, in any order.
CoinBodies ==
    LET coin(id, l) == [id |-> id, symbol |-> l[1], name |-> l[2]]
        Coins == UNION {{coin(id, l) : l \in UpstreamLabels(id)} : id \in IDS}
    IN  {<<>>} \cup {<<c>> : c \in Coins}
        \cup {s \in {<<c, d>> : c \in Coins, d \in Coins} : s[1].id # s[2].id}

\* by_sym.get(sym.upper()): the coins of the list whose upper-cased symbol is
\* sym, in the order of the list.
by_sym(coins, sym) == SelectSeq(coins, LAMBDA c : upper(c.symbol) = upper(sym))

\* map_symbols_to_cg_ids: for each symbol chosen = lst[0], a symbol without
\* coin goes to missing.
RECURSIVE map_symbols_to_cg_ids(_, _)
map_symbols_to_cg_ids(symbols, coins) ==
    IF symbols = <<>> THEN <<>>
    ELSE LET lst == by_sym(coins, Head(symbols))
             rest == map_symbols_to_cg_ids(Tail(symbols), coins)
         IN  IF lst = <<>> THEN rest
             ELSE <<[cgId |-> lst[1].id, symbol |-> lst[1].symbol,
                     name |-> lst[1].name]>> \o rest

\* The mapped rows as executemany applies them: per cgId the last row wins.
rows_of(mapped) ==
    [cgId \in {mapped[i].cgId : i \in DOMAIN mapped} |->
        LET i == CHOOSE k \in DOMAIN mapped :
                    /\ mapped[k].cgId = cgId
                    /\ \A j \in DOMAIN mapped : mapped[j].cgId = cgId => j <= k
        IN  <<mapped[i].symbol, mapped[i].name>>]

\* seed_rows_from_crypto_com with coins/list answered by coins.
RunSeedFrom(coins) ==
    /\ pipe.phase = "seed"
    /\ LET rows == rows_of(map_symbols_to_cg_ids(Universe, coins))
       IN  /\ tokens' = seed_rows(tokens, rows, DOMAIN rows)
           /\ last' = [op |-> "seed", ids |-> DOMAIN rows, items |-> coins]
    /\ pipe' = [pipe EXCEPT !.phase = "seeded"]
    /\ hist' = [hist EXCEPT !.requests = @ \cup {"get-instruments", "coins/list"}]
    /\ UNCHANGED <<clock, run, result, saved>>
    /\ UNCHANGED <<fvars, mvars, evars>>

\* One run of a build script on a store that does not exist yet.
NextSeed ==
    \/ /\ pipe.phase = "idle"
       /\ \E script \in BuildScripts, resume \in BOOLEAN, force \in BOOLEAN,
             skip_images \in BOOLEAN : RunOpen(script, resume, force, skip_images)
    \/ \E coins \in CoinBodies : RunSeedFrom(coins)
    \/ \E url \in {"get-instruments", "coins/list"} : RunSeedFails(url)
    \/ RunSeedCommit
    \/ /\ pipe.phase = "markets"
       /\ \E batch \in SUBSET pipe.todo, arr \in MarketsData, raised \in BOOLEAN :
             RunMarkets(batch, arr, raised)
    \/ /\ pipe.phase = "markets"
       /\ \E batch \in SUBSET pipe.todo : RunMarketsFails(batch)
    \/ \E cid \in UpstreamIds, data \in RunDetails : RunDetail(cid, data)
    \/ \E cid \in UpstreamIds : RunDetailFails(cid)
    \/ RunFlush
    \/ RunExit

SpecSeed == InitRun /\ [][NextSeed]_vars

\* ------------------------------------------------------------------ build scripts: one run with its detail requests

\* One run of a build script in which each iteration of the per-id loop of
\* enrich_details is a request_json call with its attempts.  While a call is
\* out, `last` names the id it is for.

\* url = .../coins/{cid}; data = request_json(url): the call starts.
LiveCall(cid, gap) ==
    /\ pipe.phase = "detail"
    /\ cid \in pipe.todo
    /\ last.op # "call"
    /\ req.pc \in {"idle", "returned", "raised"}
    /\ time' = time + gap
    /\ req' = [NoCall EXCEPT !.script = pipe.script, !.pc = "loop",
                             !.calls = req.calls + 1]
    /\ last' = Op("call", {cid})
    /\ UNCHANGED <<_last_call_ts, wire>>
    /\ UNCHANGED <<tokens, clock, run, result>>
    /\ UNCHANGED <<mvars, evars, pvars>>

\* request_json has returned: the rest of the iteration.
LiveDetail(cid, data) ==
    /\ last.op = "call"
    /\ cid \in last.ids
    /\ req.pc = "returned"
    /\ RunDetail(cid, data)

\* request_json has raised: "except Exception" of the loop.
LiveDetailFails(cid) ==
    /\ last.op = "call"
    /\ cid \in last.ids
    /\ req.pc = "raised"
    /\ RunDetailFails(cid)

\* What the upstream answers in a run that is followed to its end: no
\* Retry-After header or an HTTP-date, no jitter, coins with an id and one label.
LiveRetryAfters == {h \in RetryAfters : h.form \in {"absent", "date"}}

LiveRows ==
    {rows \in CoinLists : /\ DOMAIN rows \subseteq IDS
                          /\ \A id \in DOMAIN rows : rows[id] = <<"s1", "n1">>}

\* The attempts of the call that is out.
LiveAttempt ==
    /\ pipe.phase = "detail"
    /\ last.op = "call"
    /\ \/ Send
       \/ \E dur \in Durations : RespondOk(dur)
       \/ \E dur \in Durations : RespondClientError(dur)
       \/ \E h \in LiveRetryAfters, dur \in Durations :
             RespondRetryable("429", h, 0, dur)
       \/ \E dur \in Durations : RespondNetworkError("Timeout", 0, dur)

NextLive ==
    \/ /\ pipe.phase = "idle"
       /\ \E script \in BuildScripts, resume \in BOOLEAN, force \in BOOLEAN,
             skip_images \in BOOLEAN : RunOpen(script, resume, force, skip_images)
    \/ /\ pipe.phase = "seed"
       /\ \E rows \in LiveRows : RunSeed(rows)
    \/ \E url \in {"get-instruments", "coins/list"} : RunSeedFails(url)
    \/ RunSeedCommit
    \/ /\ pipe.phase = "markets"
       /\ \E batch \in SUBSET pipe.todo, arr \in MarketsData, raised \in BOOLEAN :
             RunMarkets(batch, arr, raised)
    \/ /\ pipe.phase = "markets"
       /\ \E batch \in SUBSET pipe.todo : RunMarketsFails(batch)
    \/ \E cid \in UpstreamIds : LiveCall(cid, 0)
    \/ LiveAttempt
    \/ \E cid \in UpstreamIds, data \in RunDetails : LiveDetail(cid, data)
    \/ \E cid \in UpstreamIds : LiveDetailFails(cid)
    \/ RunFlush
    \/ RunExit

\* The process runs on one thread and goes on with its next statement: every
\* request has timeout=TIMEOUT_SEC and every sleep is finite.
SpecLive == InitRun /\ [][NextLive]_vars /\ WF_vars(NextLive)

\* ================================================================== claims

\* The ids whose description or imageUrl is NULL or ''.
Incomplete(db) ==
    {id \in DOMAIN db : db[id].description \in {NULL, ""} \/ db[id].imageUrl \in {NULL, ""}}

\* The ids whose description is NULL or ''.
MissingDescription(db) == {id \in DOMAIN db : db[id].description \in {NULL, ""}}

\* C1: fill-only enrichment never regresses: a bulk-enrich or detail-enrich step
\* leaves every description and every imageUrl that was non-empty before it as
\* it was, whatever the upstream returns.
C1_EnrichNeverRegresses ==
    [][last'.op \in {"markets", "detail"} =>
         \A id \in DOMAIN tokens :
            /\ id \in DOMAIN tokens'
            /\ ~IsEmpty(tokens[id].description) =>
                   tokens'[id].description = tokens[id].description
            /\ ~IsEmpty(tokens[id].imageUrl) =>
                   tokens'[id].imageUrl = tokens[id].imageUrl]_vars

C5_ListIsExactlyIncomplete ==
    \A script \in BuildScripts, skip_images \in BOOLEAN :
        list_ids_needing_enrich(script, tokens, skip_images) = Incomplete(tokens)

\* What the listing has to return in each script and mode.
ExpectedListing(script, skip_images, db) ==
    IF script = "build_tokens" /\ skip_images
    THEN MissingDescription(db)
    ELSE Incomplete(db)

\* C5 amended: in every reachable store the listing returns exactly the ids
\* whose description or imageUrl is NULL/empty, except in build_prebuilt_tokens'
\* skip-images mode, where it returns exactly the ids whose description is
\* NULL/empty; and the ids a run works from are that listing of the store it
\* started from.
C5_ListingPerMode ==
    /\ \A script \in BuildScripts, skip_images \in BOOLEAN :
          list_ids_needing_enrich(script, tokens, skip_images)
             = ExpectedListing(script, skip_images, tokens)
    /\ (last.op \in {"resume", "seed"} /\ run.script # "none") =>
          run.ids = ExpectedListing(run.script, run.skip_images, tokens)

\* C5 witness: a resumed skip-images run of build_prebuilt_tokens has listed its
\* work while a stored row has a description and no image: that row is not listed.
C5_Witness ==
    /\ last.op = "resume"
    /\ run.script = "build_tokens"
    /\ run.skip_images
    /\ run.ids # {}
    /\ \E id \in DOMAIN tokens \ run.ids : IsEmpty(tokens[id].imageUrl)

\* ------------------------------------------------------------------ patch claims

PatchOps == {"apply_patches", "apply_patches_dry_run",
             "patch_descriptions", "patch_descriptions_overwrite"}

\* C2: without an explicit overwrite mode a patch run only fills empty fields:
\* every description and imageUrl that was non-empty before the run has the same
\* value after it.
C2_PatchOnlyFillsEmpty ==
    [][last'.op \in {"apply_patches", "patch_descriptions"} =>
         \A id \in DOMAIN tokens :
            /\ id \in DOMAIN tokens'
            /\ ~IsEmpty(tokens[id].description) =>
                   tokens'[id].description = tokens[id].description
            /\ ~IsEmpty(tokens[id].imageUrl) =>
                   tokens'[id].imageUrl = tokens[id].imageUrl]_vars

\* C3: a patch run never clears a field, in any mode: every description and
\* imageUrl that was non-empty before the run is non-empty after it.
C3_PatchNeverClears ==
    [][last'.op \in PatchOps =>
         \A id \in DOMAIN tokens :
            /\ id \in DOMAIN tokens'
            /\ ~IsEmpty(tokens[id].description) => ~IsEmpty(tokens'[id].description)
            /\ ~IsEmpty(tokens[id].imageUrl) => ~IsEmpty(tokens'[id].imageUrl)]_vars

\* C3 witness: apply_patches has applied an entry with an empty description and
\* an image to a row that held a description: the row took the image ("i2" comes
\* from that entry only) and still holds its description.
C3_Witness ==
    /\ last.op = "apply_patches"
    /\ \E k \in DOMAIN last.items :
          /\ entry_id(last.items[k]) = "ethereum"
          /\ IsEmpty(last.items[k].description)
    /\ "ethereum" \in DOMAIN tokens
    /\ tokens["ethereum"].description = "d1"
    /\ tokens["ethereum"].imageUrl = "i2"

BothEmpty(it) == it.description \in {NULL, ""} /\ it.imageUrl \in {NULL, ""}

C6_MinimumSpacing ==
    /\ wire.inflight <= 1
    /\ wire.prev_start >= 0 =>
           wire.start - wire.prev_start >= SPACING_SEC(req.script)

\* The retry of a second call is on the wire, and the gate held it back to
\* exactly the spacing after the request before it.
C6_Witness ==
    /\ req.calls = 2
    /\ req.attempt = 2
    /\ req.pc = "inflight"
    /\ wire.inflight = 1
    /\ wire.start - wire.prev_start = SPACING_SEC(req.script)

\* The error the last attempt ran into: an HTTP error for a status, the
\* connection exception otherwise.
UnderlyingError(status) ==
    IF status \in {"429", "503", "404"} THEN "HTTPError" ELSE status

\* C7: whatever the upstream answers, one request_json call sends at most
\* MAX_RETRIES + 1 requests and then ends; when it ends in failure it raises
\* the underlying error of its last attempt (the HTTP error or the connection
\* exception) and does not retry again.
C7_BoundedRetriesSurfaceLastError ==
    /\ req.sent <= MAX_RETRIES + 1
    /\ req.pc = "loop" => req.attempt <= MAX_RETRIES
    /\ req.pc = "raised" => req.error = UnderlyingError(req.status)

\* C8: a 429 or 5xx response that carries a Retry-After value, below the
\* attempt ceiling, is retried after a wait of exactly that value, whatever
\* value the server sent.
C8_RetryAfterHonoredExactly ==
    ( /\ req.status \in {"429", "503"}
      /\ req.retry_after.form \in {"seconds", "date"}
      /\ req.attempt <= MAX_RETRIES )
    => ( /\ req.pc = "loop"
         /\ req.wait = req.retry_after.delay )

\* C9: the wait computed for retry k after a 429/5xx without Retry-After (or
\* a network error) is min(MAX_BACKOFF_SEC, BASE_BACKOFF_SEC * 2^(k-1)) plus a
\* jitter in [0, 0.4); it never exceeds MAX_BACKOFF_SEC + 0.4, and it is not
\* smaller than the backoff wait before it as long as that one was below the cap.
C9_BackoffBoundAndMonotone ==
    [][ (req.pc = "inflight" /\ req'.pc = "loop" /\ req'.kind = "backoff") =>
          LET k   == req'.attempt
              cap == MAX_BACKOFF_SEC(req'.script)
              b   == Min(cap, BASE_BACKOFF_SEC * Pow2(k - 1))
          IN  /\ k \in 1 .. MAX_RETRIES
              /\ req'.wait >= b
              /\ req'.wait < b + 4
              /\ req'.wait <= cap + 4
              /\ (req.kind = "backoff" /\ BASE_BACKOFF_SEC * Pow2(k - 2) < cap)
                     => req'.wait >= req.wait ]_vars

\* The sixth retry in a row of build_prebuilt_tokens.py waits the capped
\* backoff with the largest jitter.
C9_Witness ==
    /\ req.script = "build_tokens"
    /\ req.pc = "loop"
    /\ req.kind = "backoff"
    /\ req.attempt = MAX_RETRIES
    /\ req.failures = MAX_RETRIES
    /\ req.wait = MAX_BACKOFF_SEC(req.script) + 3

\* ------------------------------------------------------------------ patch script claims

\* C11: a patch run with the bump option raises user_version by exactly one
\* when at least one entry was updated and leaves it as it was when none was.
C11_VersionAdvancesIffUpdated ==
    (job.phase = "done" /\ job.uv = "bump" /\ ~job.dry_run) =>
        disk.user_version = job.before_uv + (IF job.updated > 0 THEN 1 ELSE 0)

\* C12: a patch batch is all-or-nothing.  While the batch is being applied and
\* when it ends in an error the committed store is the store from before the
\* batch, and that is what a reopen finds; when the batch completes, every
\* entry it applied is committed in the same step, and for safe_patch the
\* committed rows are those of the whole batch applied to the rows before it.
C12_BatchAllOrNothing ==
    [][job'.script \in {"safe_patch", "patch_descriptions"} =>
         /\ job'.phase \in {"loop", "failed"} => disk' = disk
         /\ job'.phase = "failed" =>
                tokens' = disk.tokens /\ user_version' = disk.user_version
         /\ (job.phase = "loop" /\ job'.phase = "done" /\ ~job.dry_run) =>
                /\ disk'.tokens = tokens
                /\ job.script = "safe_patch" =>
                       disk'.tokens = apply_patches(disk.tokens, job.all, FALSE, clock).db]_vars

\* safe_patch hit an AttributeError on the second entry of a batch after it had
\* applied the first: the committed store, and the store a reopen finds, do not
\* show the first entry.
C12_Witness ==
    /\ job.script = "safe_patch"
    /\ job.phase = "failed"
    /\ job.error = "AttributeError"
    /\ ~job.dry_run
    /\ job.updated = 1
    /\ Len(job.all) = 2
    /\ entry_id(job.all[1]) = "bitcoin"
    /\ "bitcoin" \in DOMAIN tokens
    /\ tokens["bitcoin"].description # "d2"
    /\ tokens = disk.tokens

\* An entry that is not an object, or whose id is missing or not a string.
Malformed(it) ==
    \/ it.kind # "object"
    \/ (IsEmpty(it.cgId) /\ IsEmpty(it.id))
    \/ it.cgId = NUM
    \/ it.id = NUM

WellFormed(items) == SelectSeq(items, LAMBDA it : ~Malformed(it))

\* C13: a batch with a malformed entry still completes: the run ends normally,
\* counts each malformed entry as skipped and applies every well-formed entry.
C13_MalformedEntriesSkipped ==
    ( /\ job.script = "safe_patch"
      /\ job.shape \in {"list", "items"}
      /\ job.phase \in {"done", "failed"}
      /\ job.error # "aborted"
      /\ \E k \in DOMAIN job.all : Malformed(job.all[k]) )
    => ( /\ job.phase = "done"
         /\ job.skipped >= Cardinality({k \in DOMAIN job.all : Malformed(job.all[k])})
         /\ job.updated = apply_patches(disk.tokens, WellFormed(job.all), TRUE, clock).updated )

\* C14: applying a patch never creates a record: the ids in the store, and in
\* the committed store, are the same after every step of a patch run; an
\* entry whose id the store does not hold changes nothing and is counted as
\* missing by safe_patch.
C14_PatchCreatesNoRecord ==
    [][job'.script \in {"safe_patch", "patch_descriptions"} =>
         /\ DOMAIN tokens' = DOMAIN tokens
         /\ DOMAIN disk'.tokens = DOMAIN disk.tokens
         /\ ( /\ job.phase = "loop" /\ job.items # <<>>
              /\ job'.phase = "loop"
              /\ entry_id(Head(job.items)) \notin DOMAIN tokens \cup {""} )
            => ( /\ tokens' = tokens
                 /\ job.script = "safe_patch" => job'.missing = job.missing + 1 )]_vars

\* safe_patch has committed a batch with an entry for an id the store does not
\* hold and an entry it applied: the id is counted missing and is still absent.
C14_Witness ==
    /\ job.script = "safe_patch"
    /\ job.phase = "done"
    /\ ~job.dry_run
    /\ job.missing = 1
    /\ job.updated = 1
    /\ \E k \in DOMAIN job.all : entry_id(job.all[k]) = "ghost"
    /\ "ghost" \notin DOMAIN disk.tokens
    /\ "ghost" \notin DOMAIN tokens

\* The patches of C15: id, description and imageUrl for distinct ids, in order.
Triples ==
    {t \in UNION {[1..n -> [id : MapKeys, description : {NULL, "d2"},
                            imageUrl : {NULL, "i2"}]] : n \in 0..MaxDocLen} :
        \A i, j \in DOMAIN t : i # j => t[i].id # t[j].id}

AsList(t) ==
    [shape |-> "list",
     body |-> [k \in DOMAIN t |-> Obj(NULL, t[k].id, t[k].description, t[k].imageUrl)]]

AsMap(t) ==
    [shape |-> "map",
     body |-> [k \in DOMAIN t |->
                  [key |-> t[k].id,
                   value |-> Obj(NULL, NULL, t[k].description, t[k].imageUrl)]]]

\* C15: a patch given as a list of {id, description, imageUrl} objects and the
\* same patch given as a map id -> fields are normalised to entries with the
\* same ids and fields, each map entry naming the record of its key, and
\* applying either to the same store gives the same store and the same counts.
C15_ShapesEquivalent ==
    job.script = "none" =>
        \A t \in Triples :
            LET l == patch_items(AsList(t)).items
                m == patch_items(AsMap(t)).items
            IN  /\ Len(l) = Len(t) /\ Len(m) = Len(t)
                /\ \A k \in DOMAIN t :
                      /\ entry_id(m[k]) = t[k].id
                      /\ entry_id(l[k]) = t[k].id
                      /\ m[k].description = l[k].description
                      /\ m[k].imageUrl = l[k].imageUrl
                /\ apply_patches(tokens, m, FALSE, clock)
                     = apply_patches(tokens, l, FALSE, clock)

\* safe_patch has committed a patch in map form that filled the description of
\* the record its key names.
C15_Witness ==
    /\ job.script = "safe_patch"
    /\ job.shape = "map"
    /\ job.phase = "done"
    /\ ~job.dry_run
    /\ job.updated = 1
    /\ Len(job.all) = 1
    /\ job.all[1].cgId = "bitcoin"
    /\ job.all[1].description = "d2"
    /\ disk.tokens["bitcoin"].description = "d2"

\* ------------------------------------------------------------------ ensure_schema claims

\* The database a completed rebuild leaves: the new table under the name
\* tokens with every copied row, no shadow table, both indexes.
RebuiltDb(old) ==
    [tokens |-> [cols |-> Columns, notnull |-> REQUIRED_NOT_NULL, pk |-> "cgId",
                 rows |-> copy_rows(<<>>, old.tokens.rows)],
     tokens_new |-> NoTable,
     indexes |-> {IDX_SYMBOL, IDX_NAME}]

\* C16: whatever step of the rebuild the process crashes at, the store a reopen
\* finds holds either the complete old tokens table or the complete renamed new
\* table with all copied rows, and never a shadow table.
C16_RebuildCrashAtomic ==
    ens.path = "rebuild" =>
        /\ file.tokens_new = NoTable
        /\ file = ens.old \/ file = RebuiltDb(ens.old)
        /\ ens.phase = "crashed" => conn = file

\* The process was killed after DROP TABLE tokens and before the rename: the
\* reopened store is the old one, with its two rows.
C16_Witness ==
    /\ ens.path = "rebuild"
    /\ ens.phase = "crashed"
    /\ Head(ens.todo) = "RENAME"
    /\ Len(ens.old.tokens.rows) = 2
    /\ conn = ens.old
    /\ file = ens.old

\* C17: after ensure() has rebuilt a table, the table has as many rows as
\* before, and every row of before is there with all its non-null values.
C17_RebuildKeepsEveryRow ==
    (ens.phase = "done" /\ ens.path = "rebuild") =>
        LET old == ens.old.tokens.rows
            new == conn.tokens.rows
        IN  /\ Len(new) = Len(old)
            /\ \A i \in DOMAIN old : \E j \in DOMAIN new :
                  \A c \in Columns : old[i][c] # Null(c) => new[j][c] = old[i][c]

\* C18: after ensure() has rebuilt a table, a row that held NULL in symbol or
\* name holds the empty string there, NULL in updatedAt became 0, and NULL in
\* description became the empty string (rows taken by their id, for the ids
\* that one row of the old table held).
C18_RebuildDefaultsForNulls ==
    (ens.phase = "done" /\ ens.path = "rebuild") =>
        LET old == ens.old.tokens.rows
            new == conn.tokens.rows
        IN  \A i \in DOMAIN old :
               ( /\ old[i].cgId # NULL
                 /\ \A k \in DOMAIN old : k # i => old[k].cgId # old[i].cgId )
               => \E j \in DOMAIN new :
                     /\ new[j].cgId = old[i].cgId
                     /\ old[i].symbol = NULL => new[j].symbol = ""
                     /\ old[i].name = NULL => new[j].name = ""
                     /\ old[i].updatedAt = Null("updatedAt") => new[j].updatedAt = 0
                     /\ old[i].description = NULL => new[j].description = ""

\* C19: when ensure() returns, the tokens table exists with the six columns,
\* cgId is its primary key, and cgId, symbol, name and updatedAt are NOT NULL
\* and hold no NULL.
C19_EnsurePostcondition ==
    ens.phase = "done" =>
        /\ conn.tokens # NoTable
        /\ Columns \subseteq conn.tokens.cols
        /\ conn.tokens.pk = "cgId"
        /\ REQUIRED_NOT_NULL \subseteq conn.tokens.notnull
        /\ \A i \in DOMAIN conn.tokens.rows :
              \A c \in REQUIRED_NOT_NULL : conn.tokens.rows[i][c] # Null(c)
        /\ file = conn

\* ensure() has returned from rebuilding a table of the build scripts, all
\* columns nullable, that held a row.
C19_Witness ==
    /\ ens.phase = "done"
    /\ ens.path = "rebuild"
    /\ ens.old.tokens.notnull = {}
    /\ ens.old.tokens.pk = "cgId"
    /\ Len(conn.tokens.rows) >= 1
    /\ conn.tokens.notnull = REQUIRED_NOT_NULL

\* A tokens table that lacks a required column or whose cgId is not the
\* primary key.
Irreconcilable(db) ==
    /\ db.tokens # NoTable
    /\ \/ ~(Columns \subseteq db.tokens.cols)
       \/ db.tokens.pk # "cgId"

\* C20: on a table that cannot be reconciled ensure() fails with an error and
\* does not rebuild: it never returns, and the committed store stays the old
\* one, rows and all, without a shadow table.
C20_IrreconcilableFailsCleanly ==
    (ens.phase # "idle" /\ Irreconcilable(ens.old)) =>
        /\ ens.phase # "done"
        /\ file = ens.old
        /\ ens.phase \in {"failed", "crashed"} => conn = ens.old

\* ------------------------------------------------------------------ updatedAt claims

\* The rows of db whose description or imageUrl differs in db2.
ContentChanged(db, db2) ==
    {id \in DOMAIN db \cap DOMAIN db2 :
        \/ db2[id].description # db[id].description
        \/ db2[id].imageUrl # db[id].imageUrl}

\* C22: updatedAt tracks content changes exactly: a patch write sets a row's
\* updatedAt to the timestamp of the write if it changed the row's description
\* or imageUrl, and leaves updatedAt as it was if it did not.
C22_UpdatedAtIffContentChanged ==
    [][last'.op \in {"apply_patches", "patch_descriptions", "patch_descriptions_overwrite"} =>
         \A id \in DOMAIN tokens :
            /\ id \in DOMAIN tokens'
            /\ id \in ContentChanged(tokens, tokens') => tokens'[id].updatedAt = clock
            /\ id \notin ContentChanged(tokens, tokens') =>
                   tokens'[id].updatedAt = tokens[id].updatedAt]_vars

\* ------------------------------------------------------------------ record life claims

\* The cgId values of the rows of a table.
TableIds(t) == {t.rows[i].cgId : i \in DOMAIN t.rows}

\* C24 (schema-ensure part): records are never deleted by normal operation:
\* when ensure_schema has returned, every cgId the tokens table held before
\* the call is still the cgId of a row.
C24_EnsureKeepsEveryId ==
    ens.phase = "done" => TableIds(ens.old.tokens) \subseteq TableIds(conn.tokens)

\* C23: updatedAt is monotone: the clock never goes back, and over build runs
\* (seed, markets and detail writes) and safe_patch runs (rebuild, patch) in
\* any order, the updatedAt of a record never decreases from one step to the
\* next.
C23_UpdatedAtMonotone ==
    [][\A id \in DOMAIN tokens \cap DOMAIN tokens' :
          tokens'[id].updatedAt >= tokens[id].updatedAt]_vars

\* C23 witness: the table was seeded and enriched at time 1 and, at time 2,
\* rebuilt and patched: the patched row carries 2, the other row came through
\* the rebuild with its 1.
C23_Witness ==
    /\ last.op = "rebuild_and_patch"
    /\ clock = 2
    /\ DOMAIN tokens = IDS
    /\ tokens["bitcoin"].description = "d2"
    /\ tokens["bitcoin"].updatedAt = 2
    /\ tokens["ethereum"].description = "d1"
    /\ tokens["ethereum"].updatedAt = 1

\* ------------------------------------------------------------------ build run claims

\* C21: in every state of the file that build runs reach, every record's cgId
\* is neither NULL nor '' and no two records have the same cgId.
C21_IdsNonEmptyAndUnique ==
    LET rows == as_rows(saved.tokens, DOMAIN saved.tokens)
    IN  \A i, j \in DOMAIN rows :
           /\ rows[i].cgId \notin {NULL, ""}
           /\ i # j => rows[i].cgId # rows[j].cgId

\* C26: a markets batch that fails, by its request or while its response is
\* applied, commits nothing and leaves the table as it was; after any batch the
\* loop goes on with the ids that are left, and after the last one the run is
\* in the detail phase.
C26_FailedBatchIsolated ==
    [][(pipe.phase = "markets" /\ pipe'.phase # "cancelled") =>
          /\ last'.op \in {"markets_failed", "markets_raised"} =>
                /\ saved'.tokens = saved.tokens
                /\ tokens' = tokens
          /\ IF pipe.todo \ last'.ids # {}
             THEN /\ pipe'.phase = "markets"
                  /\ pipe'.todo = pipe.todo \ last'.ids
             ELSE pipe'.phase \in {"detail", "flush"}]_vars

\* C26 witness: a batch has failed, the batch after it has been asked for and
\* applied (its image is committed, the failed id has none), and the run has
\* gone on to the detail loop.
C26_Witness ==
    /\ pipe.phase = "detail"
    /\ last.op = "markets"
    /\ last.ids = {"ethereum"}
    /\ hist.failed = {"bitcoin"}
    /\ saved.tokens["ethereum"].imageUrl = "i1"
    /\ IsEmpty(saved.tokens["bitcoin"].imageUrl)

\* C27: the file always holds the table as the last commit of the run left it,
\* and when the run ends by an interrupt, a kill or an exception out of main(),
\* a reopen finds exactly that table; every row whose description or imageUrl
\* the run had written without committing is listed by list_ids_needing_enrich
\* on the file.
C27_ExitLeavesLastCommit ==
    /\ [](saved.tokens = hist.last_commit)
    /\ [][(pipe.phase \notin Stopped /\ pipe'.phase \in {"cancelled", "failed"}) =>
             /\ saved'.tokens = hist.last_commit
             /\ tokens' = saved'.tokens
             /\ \A id \in ContentChanged(saved'.tokens, tokens) :
                   id \in list_ids_needing_enrich(pipe.script, saved'.tokens,
                                                  pipe.skip_images)]_vars

\* C27 witness: the run was interrupted after three detail writes: the first
\* two were committed together, the third is gone.
C27_Witness ==
    /\ pipe.phase = "cancelled"
    /\ last.op = "exit"
    /\ pipe.processed = 3
    /\ Cardinality({id \in DOMAIN saved.tokens : saved.tokens[id].description = "d1"}) = 2
    /\ Cardinality({id \in DOMAIN saved.tokens : saved.tokens[id].description = NULL}) = 1

\* Seeding 1, BulkEnriching 2, DetailEnriching 3, Done 4.
Rank(phase) ==
    CASE phase \in {"seed", "seeded"} -> 1
      [] phase = "markets" -> 2
      [] phase \in {"detail", "flush"} -> 3
      [] phase = "done" -> 4
      [] OTHER -> 0

\* C28: within a run the phases only go forward, Seeding, BulkEnriching,
\* DetailEnriching, Done, and the seed write comes before every enrich write.
C28_PhasesInOrder ==
    [][/\ (pipe.phase \notin Stopped /\ pipe'.phase \notin {"cancelled", "failed"}) =>
             Rank(pipe'.phase) >= Rank(pipe.phase)
       /\ (pipe.phase = "seed" /\ pipe'.phase = "seeded") => ~hist.enriched]_vars

\* C28 witness: a run has gone through the four phases: it made the seed, the
\* markets and the detail requests and is done.
C28_Witness ==
    /\ pipe.phase = "done"
    /\ hist.requests = {"get-instruments", "coins/list", "coins/markets", "coins/id"}
    /\ hist.enriched

LabelsOf(db) == [id \in DOMAIN db |-> <<db[id].symbol, db[id].name>>]

\* C29: a run with --resume makes no request of the seed phase, and none of its
\* steps creates a record or changes a symbol or a name, on the connection or
\* in the file, whatever the file held (nothing at all included).
C29_ResumeSkipsSeeding ==
    [][(pipe'.resume /\ pipe'.phase # "idle") =>
          /\ hist'.requests \cap {"get-instruments", "coins/list"} = {}
          /\ LabelsOf(tokens') = LabelsOf(tokens)
          /\ LabelsOf(saved'.tokens) = LabelsOf(saved.tokens)]_vars

\* C29 witness: a run with --resume has asked for details, written them and
\* ended.
C29_Witness ==
    /\ pipe.resume
    /\ pipe.phase = "done"
    /\ "coins/id" \in hist.requests
    /\ \E id \in DOMAIN saved.tokens : saved.tokens[id].description = "d1"

\* C30: when a run is done, list_ids_needing_enrich finds nothing in the file
\* (the scripts have no deadline and no identifier budget to exhaust).
C30_DoneMeansNothingLeft ==
    pipe.phase = "done" =>
        list_ids_needing_enrich(pipe.script, saved.tokens, pipe.skip_images) = {}

\* C25: when the detail request or the processing of one id fails, nothing is
\* written or committed by that step, the loop goes on with the ids that are
\* left (or ends the phase after the last one), and the failed id is listed by
\* list_ids_needing_enrich.
C25_DetailFailureIsolated ==
    [][last'.op = "detail_failed" =>
          /\ pipe'.phase \in {"detail", "flush"}
          /\ pipe'.todo = pipe.todo \ last'.ids
          /\ tokens' = tokens
          /\ saved' = saved
          /\ last'.ids \subseteq
                list_ids_needing_enrich(pipe.script, tokens', pipe.skip_images)]_vars

\* ------------------------------------------------------------------ request engine claims, continued

\* C36: a response with an error status that is neither 429 nor 5xx (404) ends
\* the call on that attempt with the HTTP error: no sleep follows the response,
\* no attempt is added and no further request is sent until the caller calls
\* again.
C36_ClientErrorNotRetried ==
    [][/\ (req.pc = "inflight" /\ req'.status = "404") =>
             /\ req'.pc = "raised"
             /\ req'.error = "HTTPError"
             /\ req'.attempt = req.attempt
             /\ req'.sent = req.sent
             /\ req'.wait = req.wait
             /\ time' - time \in Durations
       /\ (req.pc = "raised" /\ req.status = "404" /\ req' # req) =>
             /\ req'.pc = "loop"
             /\ req'.calls = req.calls + 1
             /\ req'.sent = 0]_vars

\* C36 witness: the third attempt of a call, after two retried failures, was
\* answered 404 and the call has raised with three requests sent.
C36_Witness ==
    /\ req.pc = "raised"
    /\ req.status = "404"
    /\ req.error = "HTTPError"
    /\ req.attempt = 3
    /\ req.sent = 3

\* ------------------------------------------------------------------ build run claims, continued

\* C38: a markets batch changes only records whose id was in the batch asked
\* for and whose imageUrl was NULL or '' before the batch.
C38_MarketsTouchesOnlyRequested ==
    [][(pipe.phase = "markets" /\ last'.op = "markets") =>
          \A id \in DOMAIN tokens :
             tokens'[id] # tokens[id] =>
                /\ id \in last'.ids
                /\ IsEmpty(tokens[id].imageUrl)]_vars

\* ------------------------------------------------------------------ patch script claims, continued

\* C39: whatever the patch and cleanup scripts are run with, PRAGMA
\* user_version of the file never goes down.
C39_UserVersionNeverDecreases ==
    [][disk'.user_version >= disk.user_version]_vars

\* C35: a safe_patch run with --dry-run on a file that has a tokens table
\* leaves the file (the tables, their columns and constraints, their rows, the
\* indexes) as it found it.
C35_DryRunWritesNothing ==
    ( /\ job.script = "safe_patch"
      /\ job.dry_run
      /\ ens.phase # "idle"
      /\ has_tokens_table(ens.old) )
    => file = ens.old

\* C34: a patch script writes a row only after ensure_schema has run on that
\* file and returned, so that the table it writes to is Room-compatible.
C34_SchemaGuardFirst ==
    [][(last'.op \in {"apply_patches", "patch_descriptions"}
           /\ conn'.tokens.rows # conn.tokens.rows) =>
          /\ ens.phase = "done"
          /\ schema_is_room_compatible(conn).ok]_vars

\* C33: two consecutive requests of a run of build_offline_db.py or of
\* fill_missing_descriptions_strict.py start at least the spacing (12 s)
\* apart.
C33_EveryRequestSpaced ==
    wire.prev_start >= 0 => wire.start - wire.prev_start >= SLEEP_SEC

\* The symbols of the universe that have a coin in the list.
Resolvable(coins) ==
    {i \in DOMAIN Universe : by_sym(coins, Universe[i]) # <<>>}

\* The orders in which a coin list can be delivered.
Orders(coins) ==
    {p \in [DOMAIN coins -> {coins[i] : i \in DOMAIN coins}] :
        {p[i] : i \in DOMAIN p} = {coins[i] : i \in DOMAIN coins}}

\* C32: the ids the seed phase has chosen are the ids it chooses for every
\* other order of the same coin list.
C32_ChoiceIndependentOfOrder ==
    last.op = "seed" =>
        \A p \in Orders(last.items) :
            DOMAIN rows_of(map_symbols_to_cg_ids(Universe, p)) = last.ids

\* C31: on a store that did not exist, the seed phase leaves one record per
\* symbol of the universe that has a coin and none that carries ZZZ; and when
\* the run is done and no request of its enrich phases has failed, every
\* record has a description and an image and none carries ZZZ.
C31_SeedThenEnrichComplete ==
    /\ last.op = "seed" =>
          /\ Cardinality(DOMAIN tokens) = Cardinality(Resolvable(last.items))
          /\ \A id \in DOMAIN tokens : upper(tokens[id].symbol) # "ZZZ"
    /\ (pipe.phase = "done" /\ ~pipe.resume /\ hist.failed = {}) =>
          \A id \in DOMAIN tokens :
             /\ ~IsEmpty(tokens[id].description)
             /\ ~IsEmpty(tokens[id].imageUrl)
             /\ upper(tokens[id].symbol) # "ZZZ"

\* C37: a run ends ([done], an exception out of main() or an exit); a detail
\* call is made only for an id that is still to do, the id of a call that has
\* ended is not to do any more and no id becomes to do again, so that each id
\* gets at most one call; and a call sends at most MAX_RETRIES + 1 requests.
C37_RunTerminates ==
    /\ <>(pipe.phase \in {"done", "failed", "cancelled"})
    /\ [](req.sent <= MAX_RETRIES + 1)
    /\ [](last.op = "call" => last.ids \subseteq pipe.todo)
    /\ [][pipe.phase = "detail" =>
             /\ pipe'.todo \subseteq pipe.todo
             /\ (last.op = "call" /\ last'.op \in {"detail", "detail_failed"}) =>
                    last.ids \cap pipe'.todo = {}]_vars

C37_Witness ==
    /\ pipe.phase = "done"
    /\ req.calls = 2
    /\ req.pc = "raised"
    /\ req.sent = MAX_RETRIES + 1

====
